---- MODULE Spec2Model ----
(***************************************************************************)
(* Export job pipeline of clipforge (src-tauri/src/commands/export.rs):    *)
(* the job registry, the export_timeline and cancel_export commands and    *)
(* the supervising task each export starts.                                *)
(***************************************************************************)
EXTENDS Integers, Sequences, FiniteSets, TLC

\* ------------------------------------------------------------------ bounds
MaxRequests == 1        \* export_timeline calls that get as far as the scratch directory
MaxCancels == 2         \* cancel_export calls on registered jobs
MaxLines == 1           \* progress lines one encoder process prints

\* The job ids export_timeline can hand out
JobIds == 1..MaxRequests
\* The job ids a caller of cancel_export can name: those, and one never handed out
CallerIds == 1..(MaxRequests + 1)
\* request.output_path values a caller may pass
Paths == {"a.mp4", "b.mp4"}

\* ------------------------------------------------------------------ state
VARIABLES
    jobs,       \* ExportState.jobs: job id -> ExportJobHandle
    task,       \* position of the task tokio::spawn started for each job
    proc,       \* the encoder (ffmpeg) OS process of each job
    events,     \* what app_handle.emit_all has published for each job id, in order
    files,      \* output files that exist on disk
    tmpDirs,    \* scratch directories clipforge_export_<uuid> that exist
    ret,        \* what the command that ran in the last step returned, if one did
    nreq,       \* export_timeline calls that created a scratch directory
    ncancel,    \* cancel_export calls that found their job
    args,       \* the arguments a function of ffmpeg/export.rs is called with
    result,     \* what that call returned
    lock,       \* the thread that holds the Mutex of ExportState.jobs
    at,         \* where each thread stands between two operations on that Mutex
    project     \* AppState.project: the project the timeline commands edit

\* The variables of the job pipeline
jobVars == <<jobs, task, proc, events, files, tmpDirs, ret, nreq, ncancel>>
\* The variables of one call of a function of ffmpeg/export.rs, of the Mutex,
\* and of the timeline commands
pureVars == <<args, result, lock, at, project>>

vars == <<jobs, task, proc, events, files, tmpDirs, ret, nreq, ncancel,
          args, result, lock, at, project>>

\* No function called, nothing returned; the Mutex unlocked, no thread in it;
\* no project loaded
NoCall == [fn |-> "none"]
Pending == [status |-> "Pending"]
Free == <<"free", 0>>
NoProject == <<"None">>

ExportStatus == {"Preparing", "Rendering", "Complete", "Cancelled", "Failed"}

\* struct ExportJobHandle { job: ExportJob { id, output_path, status }, process }
ExportJobHandle(id, path) ==
    [id |-> id, output_path |-> path, status |-> "Preparing", process |-> "None"]

\* What the synchronous part of export_timeline can run into, in code order.
SyncOutcomes ==
    {"NoProject", "NoOutputDir", "TempDirFailed",
     "NoMainTrack", "MediaNotFound", "WriteFailed", "Ok"}

\* The outcomes reached after std::fs::create_dir_all(&temp_dir) succeeded
\* (build_export_command has no Err path).
AfterTempDir == {"NoMainTrack", "MediaNotFound", "WriteFailed", "Ok"}

NoRet == [op |-> "none", id |-> 0, res |-> "none"]

Init ==
    /\ jobs = <<>>
    /\ task = [j \in JobIds |-> "none"]
    /\ proc = [j \in JobIds |-> "none"]
    /\ events = [j \in CallerIds |-> <<>>]
    /\ files = {}
    /\ tmpDirs = {}
    /\ ret = NoRet
    /\ nreq = 0
    /\ ncancel = 0
    /\ args = NoCall
    /\ result = Pending
    /\ lock = Free
    /\ at = <<>>
    /\ project = NoProject

\* jobs.get_mut(&job_id) then handle.job.status = s, a no-op when the id is absent
SetStatus(j, s) ==
    IF j \in DOMAIN jobs THEN [jobs EXCEPT ![j].status = s] ELSE jobs

\* app_handle.emit_all(name, payload): the event joins those carrying its job_id
Emit(e) == [events EXCEPT ![e.job_id] = Append(@, e)]

\* Variant of ExportTimeline: the record is inserted as soon as the scratch
\* directory exists, before the manifest is generated.
ExportTimeline_InsertFirst(outcome, path) ==
    /\ nreq < MaxRequests
    /\ nreq' = IF outcome \in AfterTempDir THEN nreq + 1 ELSE nreq
    /\ tmpDirs' = IF outcome \in AfterTempDir THEN tmpDirs \cup {nreq + 1} ELSE tmpDirs
    /\ jobs' = IF outcome \in AfterTempDir
               THEN (nreq + 1 :> ExportJobHandle(nreq + 1, path)) @@ jobs ELSE jobs
    /\ IF outcome = "Ok"
       THEN /\ task' = [task EXCEPT ![nreq + 1] = "start"]
            /\ ret' = [op |-> "export_timeline", id |-> nreq + 1, res |-> "Ok"]
       ELSE /\ task' = task
            /\ ret' = [op |-> "export_timeline", id |-> 0, res |-> outcome]
    /\ UNCHANGED <<proc, events, files, ncancel>>
    /\ UNCHANGED pureVars

\* export_timeline, lines 87-205. It has no await: validation, scratch directory,
\* manifest, command, job id, the insert of the Preparing record under the
\* registry lock, tokio::spawn of the supervising task, Ok(job_id). The job id is
\* not known to any caller before it returns. The uuid of the scratch directory
\* and the uuid of the job are both numbered by the request.
ExportTimeline(outcome, path) ==
    /\ nreq < MaxRequests
    /\ nreq' = IF outcome \in AfterTempDir THEN nreq + 1 ELSE nreq
    /\ tmpDirs' = IF outcome \in AfterTempDir THEN tmpDirs \cup {nreq + 1} ELSE tmpDirs
    /\ IF outcome = "Ok"
       THEN /\ jobs' = (nreq + 1 :> ExportJobHandle(nreq + 1, path)) @@ jobs
            /\ task' = [task EXCEPT ![nreq + 1] = "start"]
            /\ ret' = [op |-> "export_timeline", id |-> nreq + 1, res |-> "Ok"]
       ELSE /\ jobs' = jobs
            /\ task' = task
            /\ ret' = [op |-> "export_timeline", id |-> 0, res |-> outcome]
    /\ UNCHANGED <<proc, events, files, ncancel>>
    /\ UNCHANGED pureVars

\* ------------------------------------------------------------------ events
\* ExportProgressEvent / ExportCompleteEvent / ExportErrorEvent / ExportCancelledEvent
\* The numeric progress fields and the error text are not tracked here.
ExportProgressEvent(j) == [name |-> "export_progress", job_id |-> j, output_path |-> ""]
ExportCompleteEvent(j, path) == [name |-> "export_complete", job_id |-> j, output_path |-> path]
ExportErrorEvent(j) == [name |-> "export_error", job_id |-> j, output_path |-> ""]
ExportCancelledEvent(j) == [name |-> "export_cancelled", job_id |-> j, output_path |-> ""]

\* ------------------------------------------------------------------ the supervising task
\* An encoder process that has not exited: before and after it opened its output
Alive == {"started", "running"}
\* An encoder process that is gone
Exited == {"exited_ok", "exited_fail", "killed"}

\* output_path_clone captured by the task's closure (line 152)
OutputPathOf(j) == jobs[j].output_path

\* Variant of SpawnProcess: the status is set to Rendering before spawn() is tried.
SpawnProcess_RenderingFirst(j, ok) ==
    /\ task[j] = "start"
    /\ jobs' = SetStatus(j, "Rendering")
    /\ IF ok
       THEN /\ proc' = [proc EXCEPT ![j] = "started"]
            /\ task' = [task EXCEPT ![j] = "spawned"]
       ELSE /\ proc' = proc
            /\ task' = [task EXCEPT ![j] = "err"]
    /\ ret' = NoRet
    /\ UNCHANGED <<events, files, tmpDirs, nreq, ncancel>>
    /\ UNCHANGED pureVars

\* run_export lines 220-226: tokio_cmd.spawn(); Err returns from run_export at once.
SpawnProcess(j, ok) ==
    /\ task[j] = "start"
    /\ IF ok
       THEN /\ proc' = [proc EXCEPT ![j] = "started"]
            /\ task' = [task EXCEPT ![j] = "spawned"]
       ELSE /\ proc' = proc
            /\ task' = [task EXCEPT ![j] = "err"]
    /\ ret' = NoRet
    /\ UNCHANGED <<jobs, events, files, tmpDirs, nreq, ncancel>>
    /\ UNCHANGED pureVars

\* run_export lines 228-234: status = Rendering under the lock. The child stays a
\* local of run_export: handle.process is not assigned.
MarkRendering(j) ==
    /\ task[j] = "spawned"
    /\ jobs' = SetStatus(j, "Rendering")
    /\ task' = [task EXCEPT ![j] = "reading"]
    /\ ret' = NoRet
    /\ UNCHANGED <<proc, events, files, tmpDirs, nreq, ncancel>>
    /\ UNCHANGED pureVars

\* Events of one name published so far for job j
Published(j, name) == {i \in 1..Len(events[j]) : events[j][i].name = name}

\* run_export lines 244-267: one line of stderr; parse_progress decides whether an
\* export_progress event is published for it. all_output, which only feeds the
\* text of the error message, is not tracked, so a line that parse_progress
\* rejects leaves the state as it is.
ReadLine(j, isProgress) ==
    /\ task[j] = "reading"
    /\ Cardinality(Published(j, "export_progress")) < MaxLines
    /\ events' = IF isProgress THEN Emit(ExportProgressEvent(j)) ELSE events
    /\ ret' = NoRet
    /\ UNCHANGED <<jobs, task, proc, files, tmpDirs, nreq, ncancel>>
    /\ UNCHANGED pureVars

\* run_export lines 244 and 270-292: the loop ends at end of stream (or on a read
\* error, which only means fewer lines were read), then child.wait() returns once
\* the process has exited; a zero exit is Ok(()), anything else is Err.
WaitProcess(j) ==
    /\ task[j] = "reading"
    /\ proc[j] \in Exited
    /\ task' = [task EXCEPT ![j] = IF proc[j] = "exited_ok" THEN "ok" ELSE "err"]
    /\ ret' = NoRet
    /\ UNCHANGED <<jobs, proc, events, files, tmpDirs, nreq, ncancel>>
    /\ UNCHANGED pureVars

\* export_timeline lines 164-172: the Ok arm publishes export_complete first.
EmitComplete(j) ==
    /\ task[j] = "ok"
    /\ events' = Emit(ExportCompleteEvent(j, OutputPathOf(j)))
    /\ task' = [task EXCEPT ![j] = "ok_emitted"]
    /\ ret' = NoRet
    /\ UNCHANGED <<jobs, proc, files, tmpDirs, nreq, ncancel>>
    /\ UNCHANGED pureVars

\* Variant of MarkComplete: the Ok arm forgets the status write.
MarkComplete_NoWrite(j) ==
    /\ task[j] = "ok_emitted"
    /\ task' = [task EXCEPT ![j] = "cleanup"]
    /\ ret' = NoRet
    /\ UNCHANGED <<jobs, proc, events, files, tmpDirs, nreq, ncancel>>
    /\ UNCHANGED pureVars

\* export_timeline lines 174-179: then status = Complete under the lock.
MarkComplete(j) ==
    /\ task[j] = "ok_emitted"
    /\ jobs' = SetStatus(j, "Complete")
    /\ task' = [task EXCEPT ![j] = "cleanup"]
    /\ ret' = NoRet
    /\ UNCHANGED <<proc, events, files, tmpDirs, nreq, ncancel>>
    /\ UNCHANGED pureVars

\* export_timeline lines 180-188: the Err arm publishes export_error first.
EmitError(j) ==
    /\ task[j] = "err"
    /\ events' = Emit(ExportErrorEvent(j))
    /\ task' = [task EXCEPT ![j] = "err_emitted"]
    /\ ret' = NoRet
    /\ UNCHANGED <<jobs, proc, files, tmpDirs, nreq, ncancel>>
    /\ UNCHANGED pureVars

\* Variant of MarkFailed: the Err arm forgets the status write.
MarkFailed_NoWrite(j) ==
    /\ task[j] = "err_emitted"
    /\ files' = files \ {OutputPathOf(j)}
    /\ task' = [task EXCEPT ![j] = "cleanup"]
    /\ ret' = NoRet
    /\ UNCHANGED <<jobs, proc, events, tmpDirs, nreq, ncancel>>
    /\ UNCHANGED pureVars

\* export_timeline lines 190-198: status = Failed, then remove_file(output_path),
\* both with the lock guard of the arm still alive.
MarkFailed(j) ==
    /\ task[j] = "err_emitted"
    /\ jobs' = SetStatus(j, "Failed")
    /\ files' = files \ {OutputPathOf(j)}
    /\ task' = [task EXCEPT ![j] = "cleanup"]
    /\ ret' = NoRet
    /\ UNCHANGED <<proc, events, tmpDirs, nreq, ncancel>>
    /\ UNCHANGED pureVars

\* Variant of RemoveTempDir: the task ends without remove_dir_all.
RemoveTempDir_Skipped(j) ==
    /\ task[j] = "cleanup"
    /\ task' = [task EXCEPT ![j] = "done"]
    /\ ret' = NoRet
    /\ UNCHANGED <<jobs, proc, events, files, tmpDirs, nreq, ncancel>>
    /\ UNCHANGED pureVars

\* export_timeline lines 201-202: remove_dir_all(&temp_dir) after either arm.
RemoveTempDir(j) ==
    /\ task[j] = "cleanup"
    /\ tmpDirs' = tmpDirs \ {j}
    /\ task' = [task EXCEPT ![j] = "done"]
    /\ ret' = NoRet
    /\ UNCHANGED <<jobs, proc, events, files, nreq, ncancel>>
    /\ UNCHANGED pureVars

\* ------------------------------------------------------------------ the encoder process
\* ffmpeg -y <output_path>: once started, the process opens (creates) its output
\* file, once, and encodes into it.
ProcessWrites(j) ==
    /\ proc[j] = "started"
    /\ proc' = [proc EXCEPT ![j] = "running"]
    /\ files' = files \cup {OutputPathOf(j)}
    /\ ret' = NoRet
    /\ UNCHANGED <<jobs, task, events, tmpDirs, nreq, ncancel>>
    /\ UNCHANGED pureVars

\* The process ends on its own: with a non-zero exit status at any time, with a
\* zero exit status after it has written its output.
ProcessExits(j, success) ==
    /\ proc[j] \in Alive
    /\ success => proc[j] = "running"
    /\ proc' = [proc EXCEPT ![j] = IF success THEN "exited_ok" ELSE "exited_fail"]
    /\ ret' = NoRet
    /\ UNCHANGED <<jobs, task, events, files, tmpDirs, nreq, ncancel>>
    /\ UNCHANGED pureVars

\* ------------------------------------------------------------------ cancel_export
\* Variant of CancelExport: export_cancelled is published before the lookup.
CancelExport_EmitsFirst(id, killOk) ==
    /\ ncancel < MaxCancels
    /\ ncancel' = ncancel + 1
    /\ events' = Emit(ExportCancelledEvent(id))
    /\ IF id \notin DOMAIN jobs
       THEN /\ ret' = [op |-> "cancel_export", id |-> id, res |-> "JobNotFound"]
            /\ UNCHANGED <<jobs, proc, files>>
       ELSE /\ jobs' = [jobs EXCEPT ![id].process = "None", ![id].status = "Cancelled"]
            /\ files' = files \ {jobs[id].output_path}
            /\ proc' = proc
            /\ ret' = [op |-> "cancel_export", id |-> id, res |-> "Ok"]
    /\ UNCHANGED <<task, tmpDirs, nreq>>
    /\ UNCHANGED pureVars

\* Variant of CancelExport: the status write sits inside the `if let Some(process)`.
CancelExport_StatusOnKill(id, killOk) ==
    /\ ncancel < MaxCancels
    /\ ncancel' = IF id \in DOMAIN jobs THEN ncancel + 1 ELSE ncancel
    /\ IF id \notin DOMAIN jobs
       THEN /\ ret' = [op |-> "cancel_export", id |-> id, res |-> "JobNotFound"]
            /\ UNCHANGED <<jobs, proc, files, events>>
       ELSE /\ proc' = IF jobs[id].process = "Some" /\ proc[id] \in Alive
                       THEN [proc EXCEPT ![id] = "killed"] ELSE proc
            /\ jobs' = IF jobs[id].process = "Some"
                       THEN [jobs EXCEPT ![id].process = "None", ![id].status = "Cancelled"]
                       ELSE jobs
            /\ files' = files \ {jobs[id].output_path}
            /\ events' = Emit(ExportCancelledEvent(id))
            /\ ret' = [op |-> "cancel_export", id |-> id, res |-> "Ok"]
    /\ UNCHANGED <<task, tmpDirs, nreq>>
    /\ UNCHANGED pureVars

\* cancel_export, lines 302-331, all of it under the registry lock. killOk is the
\* result of process.kill(), consulted only when handle.process.take() gave a child.
CancelExport(id, killOk) ==
    /\ ncancel < MaxCancels
    /\ ncancel' = IF id \in DOMAIN jobs THEN ncancel + 1 ELSE ncancel
    /\ IF id \notin DOMAIN jobs
       THEN /\ ret' = [op |-> "cancel_export", id |-> id, res |-> "JobNotFound"]
            /\ UNCHANGED <<jobs, proc, files, events>>
       ELSE IF jobs[id].process = "Some" /\ ~killOk
       THEN /\ jobs' = [jobs EXCEPT ![id].process = "None"]
            /\ ret' = [op |-> "cancel_export", id |-> id, res |-> "KillFailed"]
            /\ UNCHANGED <<proc, files, events>>
       ELSE /\ proc' = IF jobs[id].process = "Some" /\ proc[id] \in Alive
                       THEN [proc EXCEPT ![id] = "killed"] ELSE proc
            /\ jobs' = [jobs EXCEPT ![id].process = "None", ![id].status = "Cancelled"]
            /\ files' = files \ {jobs[id].output_path}
            /\ events' = Emit(ExportCancelledEvent(id))
            /\ ret' = [op |-> "cancel_export", id |-> id, res |-> "Ok"]
    /\ UNCHANGED <<task, tmpDirs, nreq>>
    /\ UNCHANGED pureVars

\* ------------------------------------------------------------------ specification
Next ==
    \/ \E outcome \in SyncOutcomes, path \in Paths : ExportTimeline(outcome, path)
    \/ \E id \in CallerIds, killOk \in BOOLEAN : CancelExport(id, killOk)
    \/ \E j \in DOMAIN jobs, ok \in BOOLEAN : SpawnProcess(j, ok)
    \/ \E j \in DOMAIN jobs : MarkRendering(j)
    \/ \E j \in DOMAIN jobs, isProgress \in BOOLEAN : ReadLine(j, isProgress)
    \/ \E j \in DOMAIN jobs : WaitProcess(j)
    \/ \E j \in DOMAIN jobs : EmitComplete(j)
    \/ \E j \in DOMAIN jobs : MarkComplete(j)
    \/ \E j \in DOMAIN jobs : EmitError(j)
    \/ \E j \in DOMAIN jobs : MarkFailed(j)
    \/ \E j \in DOMAIN jobs : RemoveTempDir(j)
    \/ \E j \in DOMAIN jobs : ProcessWrites(j)
    \/ \E j \in DOMAIN jobs, success \in BOOLEAN : ProcessExits(j, success)

Spec == Init /\ [][Next]_vars

\* The shape of the state
TypeOK ==
    /\ DOMAIN jobs \subseteq JobIds
    /\ \A j \in DOMAIN jobs :
        /\ jobs[j].id = j
        /\ jobs[j].status \in ExportStatus
        /\ jobs[j].output_path \in Paths
        /\ jobs[j].process \in {"None", "Some"}
    /\ \A j \in JobIds :
        /\ task[j] \in {"none", "start", "spawned", "reading", "ok", "ok_emitted",
                         "err", "err_emitted", "cleanup", "done"}
        /\ proc[j] \in {"none"} \cup Alive \cup Exited
        /\ task[j] # "none" <=> j \in DOMAIN jobs
    /\ files \subseteq Paths
    /\ tmpDirs \subseteq JobIds
    /\ nreq \in 0..MaxRequests
    /\ ncancel \in 0..MaxCancels

\* The steps of the task of job j other than reading one more line; its position
\* allows at most one of them at a time.
Supervise(j) ==
    \/ \E ok \in BOOLEAN : SpawnProcess(j, ok)
    \/ MarkRendering(j)
    \/ WaitProcess(j)
    \/ EmitComplete(j)
    \/ MarkComplete(j)
    \/ EmitError(j)
    \/ MarkFailed(j)
    \/ RemoveTempDir(j)

\* tokio runs every spawned task: a step of the task that stays possible is
\* taken. The stream of an encoder that has exited ends, so the wait returns
\* however many lines were read before. The encoder and the callers of the
\* commands are under no such obligation.
FairSpec ==
    /\ Spec
    /\ \A j \in JobIds : WF_vars(j \in DOMAIN jobs /\ Supervise(j))

\* The same, with an encoder that does not run forever: a started process
\* exits, with whatever status.
ExitFairSpec ==
    /\ FairSpec
    /\ \A j \in JobIds :
        WF_vars(j \in DOMAIN jobs /\ \E success \in BOOLEAN : ProcessExits(j, success))

\* ------------------------------------------------------------------ the registry Mutex
\* The same commands and task at the grain of the Mutex of ExportState.jobs:
\* one step from each jobs.lock() to the end of the scope of its guard, one step
\* for each await between two of them.
MaxTasks == 2           \* jobs export_timeline registers

TaskIds == 1..MaxTasks

\* The threads that use the Mutex: the two commands (tauri runs them on its own
\* threads) and the task of each job (tokio worker threads)
ExportThread == <<"export_timeline", 0>>
CancelThread == <<"cancel_export", 0>>
TaskThread(j) == <<"task", j>>
LockThreads == {ExportThread, CancelThread} \cup {TaskThread(j) : j \in TaskIds}

\* Positions at which a thread is inside a scope that holds a MutexGuard
Holding == {"inserting", "cancelling", "set_rendering", "set_complete", "set_failed"}
\* Positions at which a task awaits the encoder: lines.next_line() and child.wait()
Awaiting == {"reading", "waiting"}

LockInit ==
    /\ jobs = <<>>
    /\ task = [j \in JobIds |-> "none"]
    /\ proc = [j \in JobIds |-> "none"]
    /\ events = [j \in CallerIds |-> <<>>]
    /\ files = {}
    /\ tmpDirs = {}
    /\ ret = NoRet
    /\ nreq = 0
    /\ ncancel = 0
    /\ args = NoCall
    /\ result = Pending
    /\ lock = Free
    /\ at = [t \in LockThreads |-> IF t \in {ExportThread, CancelThread} THEN "idle" ELSE "none"]
    /\ project = NoProject

\* What no step at this grain touches: processes, events and files
LockFrame ==
    UNCHANGED <<task, proc, events, files, tmpDirs, ret, nreq, ncancel, args, result, project>>

\* Mutex::lock() returns to thread t, which goes on to position pos
Acquire(t, pos) ==
    /\ lock = Free
    /\ lock' = t
    /\ at' = [at EXCEPT ![t] = pos]

\* The guard of thread t goes out of scope and t goes on to position pos
Release(t, pos) ==
    /\ lock' = Free
    /\ at' = [at EXCEPT ![t] = pos]

\* export_timeline line 133: jobs.lock() to store the new job
LockForInsert ==
    /\ at[ExportThread] = "idle"
    /\ Cardinality(DOMAIN jobs) < MaxTasks
    /\ Acquire(ExportThread, "inserting")
    /\ UNCHANGED jobs
    /\ LockFrame

\* export_timeline lines 134-205: jobs.insert, end of the block, tokio::spawn
InsertAndSpawn(path) ==
    /\ at[ExportThread] = "inserting"
    /\ LET j == Cardinality(DOMAIN jobs) + 1 IN
        /\ jobs' = (j :> ExportJobHandle(j, path)) @@ jobs
        /\ lock' = Free
        /\ at' = [at EXCEPT ![ExportThread] = "idle", ![TaskThread(j)] = "spawn"]
    /\ LockFrame

\* cancel_export line 302: jobs.lock(); the guard lives until the function returns
LockForCancel ==
    /\ at[CancelThread] = "idle"
    /\ Acquire(CancelThread, "cancelling")
    /\ UNCHANGED jobs
    /\ LockFrame

\* cancel_export lines 304-331: every path to a return, `?` included, drops the guard
CancelUnderLock(id) ==
    /\ at[CancelThread] = "cancelling"
    /\ jobs' = IF id \in DOMAIN jobs
               THEN [jobs EXCEPT ![id].process = "None", ![id].status = "Cancelled"]
               ELSE jobs
    /\ Release(CancelThread, "idle")
    /\ LockFrame

\* run_export lines 220-226: spawn() of the encoder; Err goes to the Err arm
TaskSpawn(j, ok) ==
    /\ at[TaskThread(j)] = "spawn"
    /\ at' = [at EXCEPT ![TaskThread(j)] = IF ok THEN "want_rendering" ELSE "want_failed"]
    /\ UNCHANGED <<jobs, lock>>
    /\ LockFrame

\* run_export line 230: jobs.lock() inside the block of lines 229-234
LockForRendering(j) ==
    /\ at[TaskThread(j)] = "want_rendering"
    /\ Acquire(TaskThread(j), "set_rendering")
    /\ UNCHANGED jobs
    /\ LockFrame

\* Variant of SetRendering: the block of lines 229-234 is not closed, so the
\* guard lives on while the task reads the stream.
SetRendering_GuardKept(j) ==
    /\ at[TaskThread(j)] = "set_rendering"
    /\ jobs' = SetStatus(j, "Rendering")
    /\ lock' = lock
    /\ at' = [at EXCEPT ![TaskThread(j)] = "reading"]
    /\ LockFrame

\* run_export lines 231-234: status = Rendering, end of the block
SetRendering(j) ==
    /\ at[TaskThread(j)] = "set_rendering"
    /\ jobs' = SetStatus(j, "Rendering")
    /\ Release(TaskThread(j), "reading")
    /\ LockFrame

\* run_export lines 244-268: the loop on lines.next_line().await ends
StreamEnds(j) ==
    /\ at[TaskThread(j)] = "reading"
    /\ at' = [at EXCEPT ![TaskThread(j)] = "waiting"]
    /\ UNCHANGED <<jobs, lock>>
    /\ LockFrame

\* run_export lines 271-292 and export_timeline lines 164-188: child.wait().await
\* returns, run_export returns, the arm publishes its event
WaitReturns(j, success) ==
    /\ at[TaskThread(j)] = "waiting"
    /\ at' = [at EXCEPT ![TaskThread(j)] = IF success THEN "want_complete" ELSE "want_failed"]
    /\ UNCHANGED <<jobs, lock>>
    /\ LockFrame

\* export_timeline line 175: jobs.lock() in the Ok arm
LockForComplete(j) ==
    /\ at[TaskThread(j)] = "want_complete"
    /\ Acquire(TaskThread(j), "set_complete")
    /\ UNCHANGED jobs
    /\ LockFrame

\* export_timeline lines 176-179: status = Complete, end of the arm
SetComplete(j) ==
    /\ at[TaskThread(j)] = "set_complete"
    /\ jobs' = SetStatus(j, "Complete")
    /\ Release(TaskThread(j), "cleanup")
    /\ LockFrame

\* export_timeline line 191: jobs.lock() in the Err arm
LockForFailed(j) ==
    /\ at[TaskThread(j)] = "want_failed"
    /\ Acquire(TaskThread(j), "set_failed")
    /\ UNCHANGED jobs
    /\ LockFrame

\* export_timeline lines 192-198: status = Failed, remove_file, end of the arm
SetFailed(j) ==
    /\ at[TaskThread(j)] = "set_failed"
    /\ jobs' = SetStatus(j, "Failed")
    /\ Release(TaskThread(j), "cleanup")
    /\ LockFrame

\* export_timeline lines 201-203: remove_dir_all, the task ends
TaskEnds(j) ==
    /\ at[TaskThread(j)] = "cleanup"
    /\ at' = [at EXCEPT ![TaskThread(j)] = "done"]
    /\ UNCHANGED <<jobs, lock>>
    /\ LockFrame

LockNext ==
    \/ LockForInsert
    \/ \E path \in Paths : InsertAndSpawn(path)
    \/ LockForCancel
    \/ \E id \in TaskIds : CancelUnderLock(id)
    \/ \E j \in TaskIds, ok \in BOOLEAN : TaskSpawn(j, ok)
    \/ \E j \in TaskIds : LockForRendering(j)
    \/ \E j \in TaskIds : SetRendering(j)
    \/ \E j \in TaskIds : StreamEnds(j)
    \/ \E j \in TaskIds, success \in BOOLEAN : WaitReturns(j, success)
    \/ \E j \in TaskIds : LockForComplete(j)
    \/ \E j \in TaskIds : SetComplete(j)
    \/ \E j \in TaskIds : LockForFailed(j)
    \/ \E j \in TaskIds : SetFailed(j)
    \/ \E j \in TaskIds : TaskEnds(j)

LockSpec == LockInit /\ [][LockNext]_vars

\* The code between jobs.lock() and the end of the guard's scope has no await
\* and no loop: a thread that holds the Mutex runs on to the end of that scope.
LockFairSpec ==
    /\ LockSpec
    /\ WF_vars(\E path \in Paths : InsertAndSpawn(path))
    /\ WF_vars(\E id \in TaskIds : CancelUnderLock(id))
    /\ \A j \in TaskIds :
        WF_vars(SetRendering(j)) /\ WF_vars(SetComplete(j)) /\ WF_vars(SetFailed(j))

\* ------------------------------------------------------------------ ffmpeg/export.rs
\* The functions of ffmpeg/export.rs are called with arguments drawn from
\* bounded sets; one step applies the function that args names.
MaxClips == 3           \* clips on the main track
MaxPathLen == 3         \* characters of a media path
MaxTracks == 3          \* tracks of a project with several main tracks

\* Text is a sequence of characters. Space, quote and backslash are the
\* characters the manifest format gives a meaning to.
Chars == {"a", " ", "'", "\\"}
Texts(n) == UNION {[1..k -> Chars] : k \in 0..n}

\* models/timeline.rs, TimelineClip: the fields generate_concat_file reads.
\* Times are whole seconds (finite f64 values: JSON carries no NaN).
MediaIds == {"m1", "m2"}
TimelineClips ==
    [media_clip_id : MediaIds, start_time : {0, 5, 10}, in_point : {0, 2}, out_point : {8}]
ClipLists(n) == UNION {[1..k -> TimelineClips] : k \in 0..n}

\* models/clip.rs, MediaClip: id, source_path, proxy_path (<<"None">> or <<"Some", text>>)
MediaClip(id, source, proxy) == [id |-> id, source_path |-> source, proxy_path |-> proxy]
None == <<"None">>
Some(x) == <<"Some", x>>

\* models/timeline.rs, Track: track_type and clips
Track(type, clips) == [track_type |-> type, clips |-> clips]

\* Calls of generate_concat_file: the main track varies over libraries that
\* hold both, one or none of the media; or it stands next to an overlay track,
\* or there is none; or the paths of the one clip's media vary.
PlainLibrary == <<MediaClip("m1", <<"a">>, None), MediaClip("m2", <<"a", "a">>, None)>>
Libraries ==
    {PlainLibrary, <<PlainLibrary[1]>>, <<PlainLibrary[2]>>, <<>>}
OneClip == [media_clip_id |-> "m1", start_time |-> 0, in_point |-> 0, out_point |-> 8]
OverlayTrack == Track("Overlay", <<OneClip>>)
ConcatCalls(maxClips) ==
    {[fn |-> "generate_concat_file", tracks |-> <<Track("Main", cs)>>, media_library |-> lib] :
        cs \in ClipLists(maxClips), lib \in Libraries}
TrackCalls ==
    {[fn |-> "generate_concat_file", tracks |-> ts, media_library |-> lib] :
        ts \in {<<OverlayTrack, Track("Main", cs)>> : cs \in ClipLists(1)}
               \cup {<<>>, <<OverlayTrack>>},
        lib \in Libraries}
\* Projects of up to maxTracks tracks, main or overlay, each with none, one or
\* both of two clips that name different media
OtherClip == [media_clip_id |-> "m2", start_time |-> 0, in_point |-> 0, out_point |-> 8]
SeveralTracksCalls(maxTracks) ==
    {[fn |-> "generate_concat_file", tracks |-> ts, media_library |-> PlainLibrary] :
        ts \in UNION {[1..k -> {Track(type, cs) :
                                  type \in {"Main", "Overlay"},
                                  cs \in {<<>>, <<OneClip>>, <<OtherClip>>,
                                          <<OneClip, OtherClip>>}}] : k \in 0..maxTracks}}
PathCalls(maxPathLen) ==
    {[fn |-> "generate_concat_file", tracks |-> <<Track("Main", <<OneClip>>)>>,
      media_library |-> <<MediaClip("m1", source, proxy)>>] :
        source \in Texts(maxPathLen),
        proxy \in {None} \cup {Some(t) : t \in Texts(1)}}

\* What fs::write(&concat_path, content) can do: succeed, or fail before or
\* after it created the file
WriteOutcomes == {"written", "failed", "failed_partial"}

\* Variant of MainTrack: the first of the main tracks with the most clips.
MainTrack_FirstMax(tracks) ==
    LET mains == {i \in 1..Len(tracks) : tracks[i].track_type = "Main"} IN
    IF mains = {} THEN 0
    ELSE CHOOSE i \in mains :
            \A k \in mains :
                \/ Len(tracks[k].clips) < Len(tracks[i].clips)
                \/ Len(tracks[k].clips) = Len(tracks[i].clips) /\ k >= i

\* tracks.iter().filter(Main).max_by_key(|t| t.clips.len()), lines 57-61: the
\* index of the last of the main tracks with the most clips, 0 for none
MainTrack(tracks) ==
    LET mains == {i \in 1..Len(tracks) : tracks[i].track_type = "Main"} IN
    IF mains = {} THEN 0
    ELSE CHOOSE i \in mains :
            \A k \in mains :
                \/ Len(tracks[k].clips) < Len(tracks[i].clips)
                \/ Len(tracks[k].clips) = Len(tracks[i].clips) /\ k <= i

\* Variant of SortByStartTime: the clips are left in track order.
SortByStartTime_Unsorted(clips) == clips

\* clips.sort_by(|a, b| a.start_time.partial_cmp(&b.start_time)), line 71: a
\* stable sort; each clip goes behind the clips already placed that start no later
RECURSIVE SortByStartTime(_)
SortByStartTime(clips) ==
    IF clips = <<>> THEN <<>>
    ELSE LET n == Len(clips)
             c == clips[n]
             front == SortByStartTime(SubSeq(clips, 1, n - 1))
             k == Cardinality({i \in 1..(n - 1) : front[i].start_time <= c.start_time})
         IN SubSeq(front, 1, k) \o <<c>> \o SubSeq(front, k + 1, n - 1)

\* media_library.iter().find(|m| m.id == id), lines 85-88: index of the first, or 0
FindMedia(media_library, id) ==
    LET found == {i \in 1..Len(media_library) : media_library[i].id = id} IN
    IF found = {} THEN 0 ELSE CHOOSE i \in found : \A k \in found : i <= k

\* file_path.replace("'", "'\\''"), line 99
RECURSIVE Escape(_)
Escape(path) ==
    IF path = <<>> THEN <<>>
    ELSE (IF Head(path) = "'" THEN <<"'", "\\", "'", "'">> ELSE <<Head(path)>>)
         \o Escape(Tail(path))

\* One line of the manifest: a keyword with a text or a number
Line(kw, text, num) == [kw |-> kw, text |-> text, num |-> num]

\* Variant of Segment: the path goes between the quotes as it is.
Segment_Unescaped(clip, media) ==
    LET file_path == IF media.proxy_path = None THEN media.source_path
                     ELSE media.proxy_path[2]
    IN <<Line("file", <<"'">> \o file_path \o <<"'">>, 0),
         Line("inpoint", <<>>, clip.in_point),
         Line("outpoint", <<>>, clip.out_point)>>

\* Lines 92-106: proxy_path or else source_path, escaped, between quotes, then
\* the in-point and the out-point
Segment(clip, media) ==
    LET file_path == IF media.proxy_path = None THEN media.source_path
                     ELSE media.proxy_path[2]
    IN <<Line("file", <<"'">> \o Escape(file_path) \o <<"'">>, 0),
         Line("inpoint", <<>>, clip.in_point),
         Line("outpoint", <<>>, clip.out_point)>>

\* Variant of AppendClips: a clip whose media is missing is skipped.
RECURSIVE AppendClips_SkipMissing(_, _, _)
AppendClips_SkipMissing(content, clips, media_library) ==
    IF clips = <<>> THEN [err |-> "", content |-> content]
    ELSE LET m == FindMedia(media_library, Head(clips).media_clip_id) IN
         AppendClips_SkipMissing(
             IF m = 0 THEN content ELSE content \o Segment(Head(clips), media_library[m]),
             Tail(clips), media_library)

\* The loop of lines 78-113: the first clip whose media is not found ends it
\* with `?`; err is the id that "Media clip not found: {}" names
RECURSIVE AppendClips(_, _, _)
AppendClips(content, clips, media_library) ==
    IF clips = <<>> THEN [err |-> "", content |-> content]
    ELSE LET m == FindMedia(media_library, Head(clips).media_clip_id) IN
         IF m = 0 THEN [err |-> Head(clips).media_clip_id, content |-> content]
         ELSE AppendClips(content \o Segment(Head(clips), media_library[m]),
                          Tail(clips), media_library)

\* No file in output_dir
NoFile == <<"absent">>
File(content) == <<"file", content>>

ConcatResult(status, id, file) == [status |-> status, id |-> id, file |-> file]

\* generate_concat_file, lines 38-126. file is concat.txt in output_dir after
\* the call; a write that failed half way leaves the first lines of the content.
generate_concat_file(tracks, media_library, write) ==
    LET t == MainTrack(tracks) IN
    IF t = 0 THEN ConcatResult("NoMainTrack", "", NoFile)
    ELSE LET clips == SortByStartTime(tracks[t].clips)
             built == AppendClips(<<Line("ffconcat version 1.0", <<>>, 0)>>,
                                  clips, media_library)
         IN IF built.err # "" THEN ConcatResult("MediaNotFound", built.err, NoFile)
            ELSE IF write = "written" THEN ConcatResult("Ok", "", File(built.content))
            ELSE IF write = "failed" THEN ConcatResult("WriteFailed", "", NoFile)
            ELSE ConcatResult("WriteFailed", "", File(SubSeq(built.content, 1, 1)))

\* A call of generate_concat_file returns
GenerateConcatFile(write) ==
    /\ args.fn = "generate_concat_file"
    /\ result.status = "Pending"
    /\ result' = generate_concat_file(args.tracks, args.media_library, write)
    /\ UNCHANGED <<args, lock, at, project>>
    /\ UNCHANGED jobVars

\* ---- build_export_command
\* models/export.rs: the enums of ExportSettings
ExportResolution == {"Source", "UHD4K", "QHD", "FullHD", "HD", "SD"}
VideoCodec == {"H264", "HEVC", "VP9"}
ExportQuality == {"High", "Medium", "Low"}
AudioCodec == {"AAC", "MP3", "Opus"}
\* struct ExportSettings; fps is None or Some(frames per second)
ExportSettings ==
    [resolution : ExportResolution, codec : VideoCodec, quality : ExportQuality,
     fps : {None, Some(30)}, audio_codec : AudioCodec, audio_bitrate : {192},
     hardware_acceleration : BOOLEAN]
\* The target_os the crate is compiled for: the two the cfg attributes name, and another
TargetOs == {"macos", "windows", "linux"}

BuildCalls ==
    {[fn |-> "build_export_command", settings |-> settings, target_os |-> os] :
        settings \in ExportSettings, os \in TargetOs}

\* ExportResolution::dimensions as the -vf argument it is formatted into, lines 190-194
ScaleFilter(resolution) ==
    CASE resolution = "UHD4K" -> "scale=3840:2160:force_original_aspect_ratio=decrease"
      [] resolution = "QHD" -> "scale=2560:1440:force_original_aspect_ratio=decrease"
      [] resolution = "FullHD" -> "scale=1920:1080:force_original_aspect_ratio=decrease"
      [] resolution = "HD" -> "scale=1280:720:force_original_aspect_ratio=decrease"
      [] resolution = "SD" -> "scale=854:480:force_original_aspect_ratio=decrease"

\* VideoCodec::ffmpeg_codec, models/export.rs
ffmpeg_codec(codec) ==
    CASE codec = "H264" -> "libx264"
      [] codec = "HEVC" -> "libx265"
      [] codec = "VP9" -> "libvpx-vp9"

\* ExportQuality::crf_value, models/export.rs
crf_value(quality) ==
    CASE quality = "High" -> 18
      [] quality = "Medium" -> 23
      [] quality = "Low" -> 28

\* AudioCodec::ffmpeg_codec, models/export.rs
audio_ffmpeg_codec(codec) ==
    CASE codec = "AAC" -> "aac"
      [] codec = "MP3" -> "libmp3lame"
      [] codec = "Opus" -> "libopus"

\* Lines 144-171: -c:v and the encoder. Hardware H264 exists under two cfg
\* attributes; every other case takes the codec's software encoder.
VideoEncoder(settings, os) ==
    IF settings.hardware_acceleration /\ settings.codec = "H264"
    THEN CASE os = "macos" -> "h264_videotoolbox"
           [] os = "windows" -> "h264_nvenc"
           [] OTHER -> ffmpeg_codec(settings.codec)
    ELSE ffmpeg_codec(settings.codec)

\* Variant of QualityArgs: -crf is passed whatever the settings.
QualityArgs_AlwaysCrf(settings) ==
    <<"-crf", ToString(crf_value(settings.quality))>>

\* Lines 173-182: -crf unless hardware_acceleration with H264, which gets -b:v 5M
QualityArgs(settings) ==
    IF ~settings.hardware_acceleration \/ settings.codec # "H264"
    THEN <<"-crf", ToString(crf_value(settings.quality))>>
    ELSE <<"-b:v", "5M">>

\* Lines 184-187: -preset medium when hardware_acceleration is off
PresetArgs(settings) ==
    IF ~settings.hardware_acceleration THEN <<"-preset", "medium">> ELSE <<>>

\* Lines 189-195: -vf scale=... unless the resolution is Source
ScaleArgs(settings) ==
    IF settings.resolution = "Source" THEN <<>>
    ELSE <<"-vf", ScaleFilter(settings.resolution)>>

\* Lines 197-200: -r fps when fps is Some
FpsArgs(settings) ==
    IF settings.fps = None THEN <<>> ELSE <<"-r", ToString(settings.fps[2])>>

\* Lines 202-204: -c:a codec -b:a {audio_bitrate}k
AudioArgs(settings) ==
    <<"-c:a", audio_ffmpeg_codec(settings.audio_codec),
      "-b:a", ToString(settings.audio_bitrate) \o "k">>

\* build_export_command, lines 129-215: the arguments of the ffmpeg Command, in
\* order; it has no Err path
build_export_command(concat_file, output_path, settings, os) ==
    <<"-f", "concat", "-safe", "0", "-i", concat_file>>
    \o <<"-c:v", VideoEncoder(settings, os)>>
    \o QualityArgs(settings)
    \o PresetArgs(settings)
    \o ScaleArgs(settings)
    \o FpsArgs(settings)
    \o AudioArgs(settings)
    \o <<"-y", output_path>>

\* A call of build_export_command returns
BuildExportCommand ==
    /\ args.fn = "build_export_command"
    /\ result.status = "Pending"
    /\ result' = [status |-> "Ok",
                  argv |-> build_export_command("concat.txt", "out.mp4",
                                                args.settings, args.target_os)]
    /\ UNCHANGED <<args, lock, at, project>>
    /\ UNCHANGED jobVars

\* ---- calculate_timeline_duration
MaxTrackClips == 2      \* clips on a track whose duration is calculated

\* Clips as add_clip_to_timeline admits them: start_time >= 0, in_point < out_point
PlacedClips ==
    [media_clip_id : {"m1"}, start_time : {0, 10}, in_point : {0, 2}, out_point : {8}]
PlacedTracks(maxClips) ==
    {Track(type, clips) :
        type \in {"Main", "Overlay"},
        clips \in UNION {[1..k -> PlacedClips] : k \in 0..maxClips}}
DurationCalls(maxClips) ==
    {[fn |-> "calculate_timeline_duration", tracks |-> ts] :
        ts \in {<<>>} \cup {<<a>> : a \in PlacedTracks(maxClips)}
               \cup {<<a, b>> : a \in PlacedTracks(maxClips), b \in PlacedTracks(maxClips)}}

\* Clips as the function's signature admits them (&[Track], any f64 fields):
\* out_point may lie before in_point, as in a project that was not built through
\* add_clip_to_timeline. One track of up to maxClips such clips.
AnyClips ==
    [media_clip_id : {"m1"}, start_time : {0, 1}, in_point : {0, 5}, out_point : {2, 8}]
AnyDurationCalls(maxClips) ==
    {[fn |-> "calculate_timeline_duration", tracks |-> <<Track("Main", clips)>>] :
        clips \in UNION {[1..k -> AnyClips] : k \in 0..maxClips}}

\* Variant of end_time: the out-point is taken for the length of the clip.
end_time_Untrimmed(clip) == clip.start_time + clip.out_point

\* models/timeline.rs, TimelineClip::duration and TimelineClip::end_time
end_time(clip) == clip.start_time + (clip.out_point - clip.in_point)

\* Iterator::max_by(|a, b| a.partial_cmp(b).unwrap()) then unwrap_or(0.0): the
\* fold keeps the later of two values unless the earlier is greater
RECURSIVE MaxByOrZero(_)
MaxByOrZero(values) ==
    IF values = <<>> THEN 0
    ELSE IF Len(values) = 1 THEN values[1]
    ELSE LET front == MaxByOrZero(SubSeq(values, 1, Len(values) - 1))
             last == values[Len(values)]
         IN IF front > last THEN front ELSE last

\* models/timeline.rs, Track::duration
TrackDuration(track) ==
    MaxByOrZero([i \in 1..Len(track.clips) |-> end_time(track.clips[i])])

\* calculate_timeline_duration, lines 274-280
calculate_timeline_duration(tracks) ==
    MaxByOrZero([i \in 1..Len(tracks) |-> TrackDuration(tracks[i])])

\* A call of calculate_timeline_duration returns
CalculateTimelineDuration ==
    /\ args.fn = "calculate_timeline_duration"
    /\ result.status = "Pending"
    /\ result' = [status |-> "Ok", value |-> calculate_timeline_duration(args.tracks)]
    /\ UNCHANGED <<args, lock, at, project>>
    /\ UNCHANGED jobVars

\* ---- parse_progress
MaxTokens == 3          \* key=value words on one line of encoder output

\* A line is a sequence of words. A word has a key and a form: "ok" when the
\* regular expression of its key matches it and the captured text parses,
\* "bad" when the expression matches and the captured text does not parse
\* (digits beyond u64 for frame=, "1.2.3" for fps= or for the seconds of time=),
\* "nomatch" when the expression does not match it ("frame=N/A"). n is the
\* number an "ok" capture parses to (the seconds, for time=), h and m the hours
\* and minutes of time=.
Word(key, form, h, m, n) == [key |-> key, form |-> form, h |-> h, m |-> m, n |-> n]
Words ==
    {Word("frame", "ok", 0, 0, n) : n \in {0, 100}}
    \cup {Word("fps", "ok", 0, 0, n) : n \in {0, 25}}
    \cup {Word("time", "ok", 0, 0, 4), Word("time", "bad", 0, 1, 0)}
    \cup {Word(key, form, 0, 0, 0) :
            key \in {"frame", "fps", "time"}, form \in {"bad", "nomatch"}}
    \cup {Word("text", "nomatch", 0, 0, 0)}
ProgressCalls(maxTokens) ==
    {[fn |-> "parse_progress", line |-> line, total_duration |-> total] :
        line \in UNION {[1..k -> Words] : k \in 0..maxTokens},
        total \in {0, 100}}

\* Regex::captures(line): the leftmost match; index of the word, 0 for no match
Captures(line, key) ==
    LET matches == {i \in 1..Len(line) : line[i].key = key /\ line[i].form # "nomatch"} IN
    IF matches = {} THEN 0 ELSE CHOOSE i \in matches : \A k \in matches : i <= k

\* Variant of CurrentFrame: a capture that does not parse counts as frame 0.
CurrentFrame_OrZero(line) ==
    LET c == Captures(line, "frame") IN
    IF c = 0 THEN None
    ELSE IF line[c].form = "bad" THEN Some(0)
    ELSE Some(line[c].n)

\* Lines 227-229: FRAME_RE.captures(line).and_then(|cap| cap[1].parse::<u64>().ok())
CurrentFrame(line) ==
    LET c == Captures(line, "frame") IN
    IF c = 0 \/ line[c].form = "bad" THEN None ELSE Some(line[c].n)

\* Lines 231-234: the same for FPS_RE, with unwrap_or(30.0)
Fps(line) ==
    LET c == Captures(line, "fps") IN
    IF c = 0 \/ line[c].form = "bad" THEN 30 ELSE line[c].n

\* Lines 237-244: each of the three captures of TIME_RE with unwrap_or(0.0);
\* 0.0 when TIME_RE does not match
CurrentTime(line) ==
    LET c == Captures(line, "time") IN
    IF c = 0 THEN 0
    ELSE line[c].h * 3600 + line[c].m * 60 + (IF line[c].form = "bad" THEN 0 ELSE line[c].n)

\* Lines 247-251: (current_time / total_duration).min(1.0) as a fraction, or 0
Progress(current_time, total_duration) ==
    IF total_duration > 0
    THEN IF current_time >= total_duration THEN [num |-> 1, den |-> 1]
         ELSE [num |-> current_time, den |-> total_duration]
    ELSE [num |-> 0, den |-> 1]

NoSample == [status |-> "None"]

\* parse_progress, lines 218-271. The `as u64` casts and saturating_sub keep
\* the frame counts at 0 or above.
parse_progress(line, total_duration) ==
    IF CurrentFrame(line) = None THEN NoSample
    ELSE LET current_frame == CurrentFrame(line)[2]
             fps == Fps(line)
             total_frames == IF total_duration * fps > 0 THEN total_duration * fps ELSE 0
             remaining_frames == IF total_frames > current_frame
                                 THEN total_frames - current_frame ELSE 0
         IN [status |-> "Some",
             current_frame |-> current_frame,
             total_frames |-> total_frames,
             fps |-> fps,
             progress |-> Progress(CurrentTime(line), total_duration),
             eta_seconds |-> IF fps > 0 /\ current_frame > 0
                             THEN remaining_frames \div fps ELSE 0]

\* A call of parse_progress returns
ParseProgress ==
    /\ args.fn = "parse_progress"
    /\ result.status = "Pending"
    /\ result' = parse_progress(args.line, args.total_duration)
    /\ UNCHANGED <<args, lock, at, project>>
    /\ UNCHANGED jobVars

\* ---- run_export: the error message
MaxRead == 11           \* lines read from the encoder's stderr
TailLines == 10         \* lines of output the error message quotes

\* What lines.next_line() yields: the text before a line feed, without the
\* carriage return that may precede the line feed. A carriage return of its
\* own stays in the text (the encoder ends its progress reports with one).
LineTexts == {<<"a">>, <<"b", "\r">>}
RunCalls(maxRead) ==
    {[fn |-> "run_export", stderr |-> lines, exit_code |-> code] :
        lines \in UNION {[1..k -> LineTexts] : k \in 0..maxRead}
                  \cup {<<<<>>>>, <<<<"a">>, <<>>>>, <<<<>>, <<>>, <<"a">>>>},
        code \in {0, 1}}

\* The loop of lines 244-268: all_output.push_str(&line); all_output.push('\n')
RECURSIVE ReadAll(_)
ReadAll(lines) ==
    IF lines = <<>> THEN <<>>
    ELSE ReadAll(SubSeq(lines, 1, Len(lines) - 1)) \o lines[Len(lines)] \o <<"\n">>

\* str::lines: the text is cut after each line feed; a line loses its line
\* feed and then one carriage return before it; no line after the last line feed
\* when nothing follows it
StripLineEnd(text) ==
    IF text # <<>> /\ text[Len(text)] = "\r" THEN SubSeq(text, 1, Len(text) - 1) ELSE text
RECURSIVE StrLines(_)
StrLines(text) ==
    IF text = <<>> THEN <<>>
    ELSE LET feeds == {i \in 1..Len(text) : text[i] = "\n"} IN
         IF feeds = {} THEN <<StripLineEnd(text)>>
         ELSE LET k == CHOOSE i \in feeds : \A f \in feeds : i <= f IN
              <<StripLineEnd(SubSeq(text, 1, k - 1))>> \o StrLines(SubSeq(text, k + 1, Len(text)))

\* Iterator::rev and Iterator::take
Rev(seq) == [i \in 1..Len(seq) |-> seq[Len(seq) + 1 - i]]
Take(seq, n) == SubSeq(seq, 1, IF Len(seq) < n THEN Len(seq) ELSE n)

\* [&str]::join("\n")
RECURSIVE Join(_)
Join(lines) ==
    IF lines = <<>> THEN <<>>
    ELSE IF Len(lines) = 1 THEN lines[1]
    ELSE lines[1] \o <<"\n">> \o Join(Tail(lines))

\* Variant of RecentOutput: the lines are taken from the start of the output.
RecentOutput_FromStart(all_output) ==
    Join(Take(StrLines(all_output), TailLines))

\* Lines 282-283: all_output.lines().rev().take(10), reversed again and joined
RecentOutput(all_output) ==
    Join(Rev(Take(Rev(StrLines(all_output)), TailLines)))

\* Lines 276-290: "FFmpeg export failed with status: {}" and, when all_output
\* is not empty, "\n\nRecent output:\n{}"; recent is None or Some(text)
ErrorMessage(all_output, exit_code) ==
    [status |-> "Err",
     text |-> "FFmpeg export failed with status: ",
     exit_code |-> exit_code,
     recent |-> IF all_output = <<>> THEN None ELSE Some(RecentOutput(all_output))]

\* run_export after the spawn, lines 236-292: read stderr to its end, wait for
\* the exit, Ok(()) for a zero exit status
run_export(stderr, exit_code) ==
    IF exit_code = 0 THEN [status |-> "Ok"]
    ELSE ErrorMessage(ReadAll(stderr), exit_code)

\* A call of run_export returns
RunExport ==
    /\ args.fn = "run_export"
    /\ result.status = "Pending"
    /\ result' = run_export(args.stderr, args.exit_code)
    /\ UNCHANGED <<args, lock, at, project>>
    /\ UNCHANGED jobVars

\* The calls one behaviour can start from, within the bounds
Calls(clips, pathLen, tracks, trackClips, tokens, read) ==
    <<ConcatCalls(clips), TrackCalls, SeveralTracksCalls(tracks), PathCalls(pathLen), BuildCalls,
      DurationCalls(trackClips), AnyDurationCalls(trackClips), ProgressCalls(tokens), RunCalls(read)>>

CallInit ==
    /\ jobs = <<>>
    /\ task = [j \in JobIds |-> "none"]
    /\ proc = [j \in JobIds |-> "none"]
    /\ events = [j \in CallerIds |-> <<>>]
    /\ files = {}
    /\ tmpDirs = {}
    /\ ret = NoRet
    /\ nreq = 0
    /\ ncancel = 0
    /\ LET calls == Calls(MaxClips, MaxPathLen, MaxTracks, MaxTrackClips, MaxTokens, MaxRead) IN
        \E i \in DOMAIN calls : args \in calls[i]
    /\ result = Pending
    /\ lock = Free
    /\ at = <<>>
    /\ project = NoProject

CallNext ==
    \/ \E write \in WriteOutcomes : GenerateConcatFile(write)
    \/ BuildExportCommand
    \/ CalculateTimelineDuration
    \/ ParseProgress
    \/ RunExport

CallSpec == CallInit /\ [][CallNext]_vars

\* The call has returned
Returned(fn) == args.fn = fn /\ result.status # "Pending"

\* ------------------------------------------------------------------ commands/timeline.rs
\* add_clip_to_timeline and update_timeline_clip on AppState.project.
MaxAdds == 1            \* clips add_clip_to_timeline stores

\* The f64 arguments a caller passes: below zero, zero, above zero
Times == {0 - 1, 0, 1}
\* AppState.media_library holds one media clip; callers also name one it lacks
LibraryIds == {"m1"}
CalledMediaIds == {"m1", "m9"}
\* The project has one track; callers also name a track it lacks
ProjectTrackIds == {"t1"}
CalledTrackIds == {"t1", "t9"}
\* The clip ids a caller of update_timeline_clip names: those stored, and one more
CalledClipIds == 1..(MaxAdds + 1)

\* struct TimelineClipUpdates: four Option fields; a track_id, when given, is
\* that of the project's track
TimelineClipUpdates ==
    [start_time : {None} \cup {Some(t) : t \in Times},
     in_point : {None} \cup {Some(t) : t \in Times},
     out_point : {None} \cup {Some(t) : t \in Times},
     track_id : {None, Some("t1")}]

\* TimelineClip::new: a fresh id (numbered by the clips stored before it); the
\* layer order and the absent transform are not modelled. What a command
\* returns is in ret, with the clip it returned and the lines it printed
TimelineClip(id, media_clip_id, track_id, start_time, in_point, out_point) ==
    [id |-> id, media_clip_id |-> media_clip_id, track_id |-> track_id,
     start_time |-> start_time, in_point |-> in_point, out_point |-> out_point]

\* A loaded project: its tracks, and whether mark_modified() was called on it
Project(tracks, modified) == Some([tracks |-> tracks, modified |-> modified])
NewProject == Project([i \in 1..1 |-> [id |-> "t1", clips |-> <<>>]], FALSE)

TimelineInit ==
    /\ jobs = <<>>
    /\ task = [j \in JobIds |-> "none"]
    /\ proc = [j \in JobIds |-> "none"]
    /\ events = [j \in CallerIds |-> <<>>]
    /\ files = {}
    /\ tmpDirs = {}
    /\ ret = NoRet
    /\ nreq = 0
    /\ ncancel = 0
    /\ args = NoCall
    /\ result = Pending
    /\ lock = Free
    /\ at = <<>>
    /\ project \in {NoProject, NewProject}

\* What the timeline commands leave alone
TimelineFrame ==
    /\ UNCHANGED <<jobs, task, proc, events, files, tmpDirs, nreq, ncancel>>
    /\ UNCHANGED <<args, result, lock, at>>

\* All clips of the project, track after track
RECURSIVE ClipsOf(_)
ClipsOf(tracks) ==
    IF tracks = <<>> THEN <<>> ELSE Head(tracks).clips \o ClipsOf(Tail(tracks))
StoredClips == IF project = NoProject THEN <<>> ELSE ClipsOf(project[2].tracks)

\* add_clip_to_timeline lines 36-91, in code order: the two checks of the
\* arguments, the lookup in the media library, the project, the track
AddOutcome(media_clip_id, track_id, start_time, in_point, out_point) ==
    IF in_point >= out_point THEN "InPointNotBelowOutPoint"
    ELSE IF start_time < 0 THEN "NegativeStartTime"
    ELSE IF media_clip_id \notin LibraryIds THEN "MediaClipNotFound"
    ELSE IF project = NoProject THEN "NoProjectLoaded"
    ELSE IF \A t \in 1..Len(project[2].tracks) : project[2].tracks[t].id # track_id
    THEN "TrackNotFound"
    ELSE "Ok"

\* tracks.iter_mut().find(|t| t.id == track_id): the first track of that id
FindTrack(tracks, track_id) ==
    CHOOSE t \in 1..Len(tracks) :
        /\ tracks[t].id = track_id
        /\ \A k \in 1..(t - 1) : tracks[k].id # track_id

\* add_clip_to_timeline, lines 23-92
AddClipToTimeline(media_clip_id, track_id, start_time, in_point, out_point) ==
    LET outcome == AddOutcome(media_clip_id, track_id, start_time, in_point, out_point)
        clip == TimelineClip(Len(StoredClips) + 1, media_clip_id, track_id,
                             start_time, in_point, out_point)
    IN /\ outcome = "Ok" => Len(StoredClips) < MaxAdds
       /\ IF outcome = "Ok"
          THEN LET t == FindTrack(project[2].tracks, track_id) IN
               /\ project' = Project([project[2].tracks EXCEPT
                                        ![t].clips = Append(@, clip)], TRUE)
               /\ ret' = [op |-> "add_clip_to_timeline", id |-> clip.id,
                          res |-> "Ok", clip |-> Some(clip), printed |-> <<>>]
          ELSE /\ project' = project
               /\ ret' = [op |-> "add_clip_to_timeline", id |-> 0,
                          res |-> outcome, clip |-> None, printed |-> <<>>]
       /\ TimelineFrame

\* The clip an update works on and the lines it has printed so far: for each
\* field present in the request, whether it was updated or rejected
Updating(clip, printed) == [clip |-> clip, printed |-> printed]

\* Lines 114-121: start_time
SetStartTime(u, updates) ==
    IF updates.start_time = None THEN u
    ELSE IF updates.start_time[2] >= 0
    THEN Updating([u.clip EXCEPT !.start_time = updates.start_time[2]],
                  Append(u.printed, <<"start_time", "Updated">>))
    ELSE Updating(u.clip, Append(u.printed, <<"start_time", "Rejected">>))

\* Variant of SetInPoint: in_point is assigned without the test.
SetInPoint_Unchecked(u, updates) ==
    IF updates.in_point = None THEN u
    ELSE Updating([u.clip EXCEPT !.in_point = updates.in_point[2]],
                  Append(u.printed, <<"in_point", "Updated">>))

\* Lines 122-132: in_point, against zero and the clip's out_point
SetInPoint(u, updates) ==
    IF updates.in_point = None THEN u
    ELSE IF updates.in_point[2] >= 0 /\ updates.in_point[2] < u.clip.out_point
    THEN Updating([u.clip EXCEPT !.in_point = updates.in_point[2]],
                  Append(u.printed, <<"in_point", "Updated">>))
    ELSE Updating(u.clip, Append(u.printed, <<"in_point", "Rejected">>))

\* Lines 133-143: out_point, against the clip's in_point
SetOutPoint(u, updates) ==
    IF updates.out_point = None THEN u
    ELSE IF updates.out_point[2] > u.clip.in_point
    THEN Updating([u.clip EXCEPT !.out_point = updates.out_point[2]],
                  Append(u.printed, <<"out_point", "Updated">>))
    ELSE Updating(u.clip, Append(u.printed, <<"out_point", "Rejected">>))

\* Lines 144-147: track_id, with no test
SetTrackId(u, updates) ==
    IF updates.track_id = None THEN u
    ELSE Updating([u.clip EXCEPT !.track_id = updates.track_id[2]],
                  Append(u.printed, <<"track_id", "Updated">>))

\* update_timeline_clip lines 113-149: the four `if let Some` in order, each
\* looking at the clip as the ones before it left it
UpdatedClip(clip, updates) ==
    SetTrackId(SetOutPoint(SetInPoint(SetStartTime(Updating(clip, <<>>), updates),
                                      updates), updates), updates)

\* `for track in &mut project.tracks` with find(|c| c.id == clip_id) and break:
\* the first track that has the clip, and the clip's index in it; <<0, 0>> if none
FindClip(tracks, clip_id) ==
    LET hits == {<<t, i>> \in (1..Len(tracks)) \X (1..Len(ClipsOf(tracks))) :
                    i <= Len(tracks[t].clips) /\ tracks[t].clips[i].id = clip_id}
    IN IF hits = {} THEN <<0, 0>>
       ELSE CHOOSE h \in hits :
                \A g \in hits : h[1] < g[1] \/ (h[1] = g[1] /\ h[2] <= g[2])

\* update_timeline_clip, lines 96-164
UpdateTimelineClip(clip_id, updates) ==
    /\ IF project = NoProject
       THEN /\ project' = project
            /\ ret' = [op |-> "update_timeline_clip", id |-> clip_id,
                       res |-> "NoProjectLoaded", clip |-> None, printed |-> <<>>]
       ELSE LET at_ == FindClip(project[2].tracks, clip_id) IN
            IF at_ = <<0, 0>>
            THEN /\ project' = project
                 /\ ret' = [op |-> "update_timeline_clip", id |-> clip_id,
                            res |-> "ClipNotFound", clip |-> None, printed |-> <<>>]
            ELSE LET u == UpdatedClip(project[2].tracks[at_[1]].clips[at_[2]], updates) IN
                 /\ project' = Project([project[2].tracks EXCEPT
                                          ![at_[1]].clips[at_[2]] = u.clip], TRUE)
                 /\ ret' = [op |-> "update_timeline_clip", id |-> clip_id,
                            res |-> "Ok", clip |-> Some(u.clip), printed |-> u.printed]
    /\ TimelineFrame

TimelineNext ==
    \/ \E media_clip_id \in CalledMediaIds, track_id \in CalledTrackIds,
          start_time \in Times, in_point \in Times, out_point \in Times :
            AddClipToTimeline(media_clip_id, track_id, start_time, in_point, out_point)
    \/ \E clip_id \in CalledClipIds, updates \in TimelineClipUpdates :
            UpdateTimelineClip(clip_id, updates)

TimelineSpec == TimelineInit /\ [][TimelineNext]_vars

\* ------------------------------------------------------------------ vocabulary of the claims
StatusOf(j) == jobs[j].status
Count(j, name) == Cardinality(Published(j, name))
CancelledSeen(j) == Count(j, "export_cancelled") > 0
\* The task of job j found that the encoder could not be spawned
SpawnFailed(j) == task[j] \in {"err", "err_emitted", "cleanup", "done"} /\ proc[j] = "none"
\* A step in which cancel_export ran on a registered job
CancelStep == ncancel' = ncancel + 1
\* A step in which a command returned r
Returns(r) == ret' = r

\* ------------------------------------------------------------------ C1
\* C1: once cancel_export has set a job's status to Cancelled, no later step
\* changes that status (the supervisor's Rendering, Complete and Failed writes
\* never overwrite Cancelled).
C1_CancelledIsSticky ==
    [][\A j \in DOMAIN jobs : StatusOf(j) = "Cancelled" => jobs'[j].status = "Cancelled"]_vars

\* ------------------------------------------------------------------ C2
\* C2: after export_cancelled has been published for a job, no export_complete
\* event is published for that job.
C2_NoCompleteAfterCancelled ==
    \A j \in CallerIds : \A a, b \in 1..Len(events[j]) :
        (a < b /\ events[j][a].name = "export_cancelled")
            => events[j][b].name # "export_complete"

\* ------------------------------------------------------------------ C3
\* C3: the record of a Rendering job holds the live process handle, and a
\* cancel_export that succeeds on a job whose encoder runs leaves it with no
\* running process.
C3_CancelTerminatesProcess ==
    [][/\ \A j \in DOMAIN jobs' :
            (jobs'[j].status = "Rendering" /\ proc'[j] \in Alive)
                => jobs'[j].process = "Some"
       /\ \A j \in DOMAIN jobs :
            (CancelStep /\ ret'.id = j /\ ret'.res = "Ok" /\ proc[j] \in Alive)
                => proc'[j] \notin Alive]_vars

\* ------------------------------------------------------------------ C4
\* C4: a job whose status has become Complete or Failed never changes status
\* again; a later cancel_export does not move it to Cancelled.
C4_TerminalStatusIsFinal ==
    [][\A j \in DOMAIN jobs :
        StatusOf(j) \in {"Complete", "Failed"} => jobs'[j].status = StatusOf(j)]_vars

\* ------------------------------------------------------------------ C5
\* C5: whatever the outcome of a registered job, once its encoder has exited or
\* could not be spawned, its scratch directory is eventually deleted.
C5_ScratchDirEventuallyDeleted ==
    \A j \in JobIds :
        (task[j] # "none" /\ (proc[j] \in Exited \/ SpawnFailed(j))) ~> (j \notin tmpDirs)

\* A cancelled job whose task has ended and whose scratch directory is gone
C5_Witness ==
    \E j \in DOMAIN jobs :
        task[j] = "done" /\ proc[j] \in Exited /\ CancelledSeen(j) /\ j \notin tmpDirs

\* ------------------------------------------------------------------ C6
\* C6: export_timeline either fails synchronously, leaving the registry as it
\* was and publishing nothing, or inserts a record with status Preparing and no
\* process handle before the supervising task is started, and returns the job id
\* without waiting for the render.
C6_ExportTimelineContract ==
    [][/\ \A o \in SyncOutcomes \ {"Ok"} :
            Returns([op |-> "export_timeline", id |-> 0, res |-> o])
                => (jobs' = jobs /\ events' = events /\ task' = task)
       /\ \A j \in JobIds :
            /\ (j \notin DOMAIN jobs /\ j \in DOMAIN jobs')
                => /\ jobs'[j].status = "Preparing"
                   /\ jobs'[j].process = "None"
                   /\ task[j] = "none"
            /\ (task[j] = "none" /\ task'[j] # "none")
                => (j \in DOMAIN jobs' /\ task'[j] = "start" /\ proc'[j] = "none")
            /\ Returns([op |-> "export_timeline", id |-> j, res |-> "Ok"])
                => (j \in DOMAIN jobs' /\ task[j] = "none" /\ task'[j] = "start")]_vars

\* export_timeline has returned a job id and the job is still Preparing
C6_Witness ==
    \E j \in DOMAIN jobs :
        /\ ret = [op |-> "export_timeline", id |-> j, res |-> "Ok"]
        /\ StatusOf(j) = "Preparing"
        /\ task[j] = "start"

\* ------------------------------------------------------------------ C7
\* C7: for a job that was not cancelled, when its task has ended: a zero exit
\* gives status Complete and exactly one export_complete event, carrying the
\* job's output_path; a non-zero exit gives Failed and exactly one export_error
\* event; the record is still in the registry.
C7_NaturalOutcome ==
    \A j \in JobIds :
        (task[j] = "done" /\ ~CancelledSeen(j)) =>
            /\ j \in DOMAIN jobs
            /\ proc[j] = "exited_ok" =>
                /\ StatusOf(j) = "Complete"
                /\ Count(j, "export_complete") = 1
                /\ Count(j, "export_error") = 0
                /\ \E i \in 1..Len(events[j]) :
                       events[j][i] = ExportCompleteEvent(j, jobs[j].output_path)
            /\ proc[j] = "exited_fail" =>
                /\ StatusOf(j) = "Failed"
                /\ Count(j, "export_error") = 1
                /\ Count(j, "export_complete") = 0

\* A job that ran to a zero exit without being cancelled
C7_Witness ==
    \E j \in DOMAIN jobs :
        /\ task[j] = "done" /\ ~CancelledSeen(j) /\ proc[j] = "exited_ok"
        /\ StatusOf(j) = "Complete"

\* ------------------------------------------------------------------ C8
\* C8: a job whose encoder could not be spawned never has status Rendering (the
\* task takes it to Failed from where it was), gets an export_error event and
\* neither export_progress nor export_complete, and its scratch directory is
\* removed by the time the task ends.
C8_SpawnFailure ==
    \A j \in DOMAIN jobs :
        SpawnFailed(j) =>
            /\ StatusOf(j) \in {"Preparing", "Failed", "Cancelled"}
            /\ Count(j, "export_progress") = 0
            /\ Count(j, "export_complete") = 0
            /\ task[j] \in {"err_emitted", "cleanup", "done"} => Count(j, "export_error") = 1
            /\ (task[j] \in {"cleanup", "done"} /\ ~CancelledSeen(j)) => StatusOf(j) = "Failed"
            /\ task[j] = "done" => j \notin tmpDirs

\* A job that failed to spawn and whose task has ended
C8_Witness ==
    \E j \in DOMAIN jobs :
        SpawnFailed(j) /\ task[j] = "done" /\ StatusOf(j) = "Failed"

\* ------------------------------------------------------------------ C9
\* C9: cancel_export with an id that is not in the registry returns the
\* job-not-found error and changes no job, no process, no file and no event;
\* with an id that is in the registry it does not return that error.
C9_CancelUnknownJob ==
    [][\A id \in CallerIds :
        /\ Returns([op |-> "cancel_export", id |-> id, res |-> "JobNotFound"])
            => (id \notin DOMAIN jobs
                /\ UNCHANGED <<jobs, task, proc, events, files, tmpDirs>>)
        /\ \A r \in {"Ok", "KillFailed"} :
            Returns([op |-> "cancel_export", id |-> id, res |-> r])
                => id \in DOMAIN jobs]_vars

\* job-not-found was returned while another job was rendering with its file on disk
C9_Witness ==
    /\ ret.op = "cancel_export" /\ ret.res = "JobNotFound" /\ ret.id \notin DOMAIN jobs
    /\ \E j \in DOMAIN jobs :
        StatusOf(j) = "Rendering" /\ proc[j] = "running" /\ jobs[j].output_path \in files

\* ------------------------------------------------------------------ C10
\* C10: cancel_export on a registered job whose record has no process handle
\* returns success, sets the status to Cancelled and publishes export_cancelled,
\* and no process is killed.
C10_CancelWithoutHandle ==
    [][\A id \in DOMAIN jobs :
        (CancelStep /\ ret'.id = id /\ jobs[id].process = "None")
            => /\ ret' = [op |-> "cancel_export", id |-> id, res |-> "Ok"]
               /\ jobs'[id].status = "Cancelled"
               /\ events'[id] = Append(events[id], ExportCancelledEvent(id))
               /\ proc' = proc]_vars

\* A job was cancelled while Preparing, before its encoder was spawned
C10_Witness ==
    \E j \in DOMAIN jobs :
        /\ ret = [op |-> "cancel_export", id |-> j, res |-> "Ok"]
        /\ StatusOf(j) = "Cancelled"
        /\ task[j] = "start"
        /\ events[j] = <<ExportCancelledEvent(j)>>

\* ------------------------------------------------------------------ C11
\* C11: after a successful cancel_export the job's record is no longer in the
\* registry, so a second cancel_export with the same id returns job-not-found
\* and no second export_cancelled event is published for it.
C11_CancelRemovesRecord ==
    /\ \A j \in JobIds :
        ret = [op |-> "cancel_export", id |-> j, res |-> "Ok"] => j \notin DOMAIN jobs
    /\ \A j \in CallerIds : Count(j, "export_cancelled") <= 1

\* ------------------------------------------------------------------ C12
\* C12: a task never holds the registry Mutex while it awaits the encoder's
\* stream or exit; a thread holds the Mutex exactly while it is inside one of
\* the guarded scopes; every change of a record (status, handle, insertion) is
\* made by a step that holds the Mutex; some step is always possible; and a
\* Mutex that is held is released, so cancel_export and export_timeline get it
\* however many jobs are rendering.
C12_LockDiscipline ==
    /\ [](\A t \in LockThreads : at[t] \in Awaiting => lock # t)
    /\ [](\A t \in LockThreads : at[t] \in Holding <=> lock = t)
    /\ [](ENABLED LockNext)
    /\ [][jobs' # jobs => (lock # Free /\ at[lock] \in Holding /\ lock' = Free)]_vars
    /\ \A t \in LockThreads : (lock = t) ~> (lock = Free)

\* cancel_export holds the Mutex while two jobs are rendering
C12_Witness ==
    /\ lock = CancelThread
    /\ \A j \in TaskIds :
        j \in DOMAIN jobs /\ StatusOf(j) = "Rendering" /\ at[TaskThread(j)] = "reading"

\* ------------------------------------------------------------------ C13
\* The clips of the track generate_concat_file selects, in track order
SelectedClips == args.tracks[MainTrack(args.tracks)].clips
\* The manifest that was written, and its i-th segment (three lines after the header)
Manifest == result.file[2]
SegmentAt(i) == SubSeq(Manifest, 3 * i - 1, 3 * i + 1)
\* The media a clip resolves to
MediaOf(clip) == args.media_library[FindMedia(args.media_library, clip.media_clip_id)]
ConcatOk == Returned("generate_concat_file") /\ result.status = "Ok"

\* C13: a manifest that generate_concat_file wrote has exactly one segment for
\* each clip of the selected main track, and the segments are in non-decreasing
\* start_time order whatever the order of the clips on the track: there is an
\* arrangement of the clips, sorted by start_time, that the segments follow.
C13_SortedPermutation ==
    ConcatOk =>
        LET n == Len(SelectedClips) IN
        /\ Len(Manifest) = 1 + 3 * n
        /\ \E perm \in Permutations(1..n) :
            /\ \A i, k \in 1..n :
                i < k => SelectedClips[perm[i]].start_time <= SelectedClips[perm[k]].start_time
            /\ \A i \in 1..n :
                /\ SegmentAt(i)[1].kw = "file"
                /\ SegmentAt(i)[1].text = Segment(SelectedClips[perm[i]], MediaOf(SelectedClips[perm[i]]))[1].text
                /\ SegmentAt(i)[2] = Line("inpoint", <<>>, SelectedClips[perm[i]].in_point)
                /\ SegmentAt(i)[3] = Line("outpoint", <<>>, SelectedClips[perm[i]].out_point)

\* Clips that start at 5, 0, 10 on the track, written as the clips at 0, 5, 10
C13_Witness ==
    /\ ConcatOk
    /\ Len(SelectedClips) = 3
    /\ SelectedClips[1].start_time = 5 /\ SelectedClips[1].in_point = 2
    /\ SelectedClips[2].start_time = 0 /\ SelectedClips[2].in_point = 0
    /\ SelectedClips[3].start_time = 10 /\ SelectedClips[3].in_point = 0
    /\ SegmentAt(1)[2].num = 0 /\ SegmentAt(2)[2].num = 2 /\ SegmentAt(3)[2].num = 0

\* ------------------------------------------------------------------ C14
\* The clips of the selected track whose media id is not in the library
Unresolved ==
    {i \in 1..Len(SelectedClips) :
        \A m \in 1..Len(args.media_library) :
            args.media_library[m].id # SelectedClips[i].media_clip_id}
\* The first of them in sorted order: the earliest start, and on equal starts
\* the one that comes first on the track
FirstUnresolved ==
    CHOOSE i \in Unresolved :
        \A k \in Unresolved :
            \/ SelectedClips[i].start_time < SelectedClips[k].start_time
            \/ SelectedClips[i].start_time = SelectedClips[k].start_time /\ i <= k

\* C14: when a clip of the selected main track names a media id that is not in
\* the library, generate_concat_file fails with media-not-found, the error names
\* the first such clip in sorted order, and no manifest file exists afterwards,
\* however many clips before it were resolved.
C14_MissingMediaWritesNothing ==
    (Returned("generate_concat_file") /\ MainTrack(args.tracks) # 0 /\ Unresolved # {}) =>
        /\ result.status = "MediaNotFound"
        /\ result.id = SelectedClips[FirstUnresolved].media_clip_id
        /\ result.file = NoFile

\* Two clips were resolved before the one whose media is missing
C14_Witness ==
    /\ Returned("generate_concat_file")
    /\ result.status = "MediaNotFound" /\ result.id = "m2" /\ result.file = NoFile
    /\ Len(SelectedClips) = 3
    /\ Unresolved = {1}
    /\ SelectedClips[1].start_time = 10
    /\ SelectedClips[2].start_time = 5
    /\ SelectedClips[3].start_time = 0

\* ------------------------------------------------------------------ C15
\* The path generate_concat_file resolves a clip to
ResolvedPath(clip) ==
    IF MediaOf(clip).proxy_path = None THEN MediaOf(clip).source_path
    ELSE MediaOf(clip).proxy_path[2]
\* Single quotes in a text
Quotes(text) == Cardinality({i \in 1..Len(text) : text[i] = "'"})
\* The text with every single quote replaced by '\''
RECURSIVE QuotesReplaced(_)
QuotesReplaced(text) ==
    IF text = <<>> THEN <<>>
    ELSE IF text[Len(text)] = "'"
         THEN QuotesReplaced(SubSeq(text, 1, Len(text) - 1)) \o <<"'", "\\", "'", "'">>
         ELSE Append(QuotesReplaced(SubSeq(text, 1, Len(text) - 1)), text[Len(text)])
\* out without the spaces it ends with beyond position end
RECURSIVE TrimTo(_, _)
TrimTo(out, end) ==
    IF Len(out) > end /\ out[Len(out)] = " " THEN TrimTo(SubSeq(out, 1, Len(out) - 1), end)
    ELSE out
\* How the reader of a manifest takes a word off a line: outside quotes a space
\* ends the word and a backslash makes the next character literal; between
\* single quotes every character is literal; spaces at the end that were
\* neither quoted nor escaped are dropped.
RECURSIVE GetToken(_, _, _, _)
GetToken(s, out, end, quoted) ==
    IF s = <<>> \/ (~quoted /\ Head(s) = " ") THEN TrimTo(out, end)
    ELSE IF quoted
    THEN IF Head(s) = "'" THEN GetToken(Tail(s), out, Len(out), FALSE)
         ELSE GetToken(Tail(s), Append(out, Head(s)), end, TRUE)
    ELSE IF Head(s) = "\\" /\ Len(s) > 1
    THEN GetToken(Tail(Tail(s)), Append(out, s[2]), Len(out) + 1, FALSE)
    ELSE IF Head(s) = "'" THEN GetToken(Tail(s), out, end, TRUE)
    ELSE GetToken(Tail(s), Append(out, Head(s)), end, FALSE)
Unquoted(text) == GetToken(text, <<>>, 0, FALSE)

\* C15: in a manifest that was written, the file line of each clip is the
\* clip's resolved path between single quotes with every single quote of the
\* path replaced by '\'', and reading that word back by the quoting rule of the
\* manifest format gives the path, whether the path has no, one or several
\* single quotes.
C15_PathRoundTrip ==
    ConcatOk =>
        \A i \in 1..Len(SelectedClips) :
            LET path == ResolvedPath(SortByStartTime(SelectedClips)[i]) IN
            /\ SegmentAt(i)[1].kw = "file"
            /\ SegmentAt(i)[1].text = <<"'">> \o QuotesReplaced(path) \o <<"'">>
            /\ Unquoted(SegmentAt(i)[1].text) = path

\* A source path with two single quotes, a backslash between them, was written
C15_Witness ==
    /\ ConcatOk
    /\ Len(SelectedClips) = 1
    /\ ResolvedPath(SelectedClips[1]) = <<"'", "\\", "'">>
    /\ Quotes(ResolvedPath(SelectedClips[1])) > 1
    /\ Unquoted(SegmentAt(1)[1].text) = <<"'", "\\", "'">>

\* ------------------------------------------------------------------ C16
\* How many times an argument occurs in the argument list that was built
Occurrences(arg) == Cardinality({i \in 1..Len(result.argv) : result.argv[i] = arg})

\* C16: the argument list build_export_command returns has no -crf when
\* hardware_acceleration is on and the codec is H264, and has one -crf, followed
\* by the CRF value of the quality, when hardware_acceleration is off, whatever
\* the codec, quality, resolution, fps and audio settings.
C16_ConstantQualityArgument ==
    Returned("build_export_command") =>
        /\ (args.settings.hardware_acceleration /\ args.settings.codec = "H264")
            => Occurrences("-crf") = 0
        /\ ~args.settings.hardware_acceleration
            => /\ Occurrences("-crf") = 1
               /\ \E i \in 1..(Len(result.argv) - 1) :
                    /\ result.argv[i] = "-crf"
                    /\ result.argv[i + 1] = ToString(crf_value(args.settings.quality))

\* Hardware H264 on macOS was built without -crf
C16_Witness ==
    /\ Returned("build_export_command")
    /\ args.settings.hardware_acceleration /\ args.settings.codec = "H264"
    /\ args.target_os = "macos"
    /\ Occurrences("h264_videotoolbox") = 1
    /\ Occurrences("-crf") = 0

\* ------------------------------------------------------------------ C17
\* start_time + (out_point - in_point) of every clip of every track
ClipEnds ==
    {args.tracks[t].clips[i].start_time
        + (args.tracks[t].clips[i].out_point - args.tracks[t].clips[i].in_point) :
        <<t, i>> \in {<<t, i>> \in (1..Len(args.tracks)) \X (1..MaxTrackClips) :
                        i <= Len(args.tracks[t].clips)}}

\* C17: calculate_timeline_duration returns the greatest, over the clips of all
\* tracks of either type, of start_time + (out_point - in_point), and 0 when
\* there is no track or no track has a clip; a gap before a clip does not
\* reduce it and the trimmed length counts, not the out-point.
C17_TimelineDuration ==
    Returned("calculate_timeline_duration") =>
        /\ ClipEnds = {} => result.value = 0
        /\ ClipEnds # {} =>
            /\ result.value \in ClipEnds
            /\ \A e \in ClipEnds : e <= result.value

\* A lone clip start = 0, in = 2, out = 8 gives 6
C17_Witness ==
    /\ Returned("calculate_timeline_duration")
    /\ Len(args.tracks) = 1
    /\ Len(args.tracks[1].clips) = 1
    /\ args.tracks[1].clips[1].start_time = 0
    /\ args.tracks[1].clips[1].in_point = 2
    /\ args.tracks[1].clips[1].out_point = 8
    /\ result.value = 6

\* ------------------------------------------------------------------ C18
\* The words of the line with a given key and form
WordsOf(key, forms) ==
    {i \in 1..Len(args.line) : args.line[i].key = key /\ args.line[i].form \in forms}
\* The first word frame= that is followed by digits, 0 for none
FirstFrame ==
    IF WordsOf("frame", {"ok", "bad"}) = {} THEN 0
    ELSE CHOOSE i \in WordsOf("frame", {"ok", "bad"}) :
            \A k \in WordsOf("frame", {"ok", "bad"}) : i <= k
FirstTime ==
    IF WordsOf("time", {"ok", "bad"}) = {} THEN 0
    ELSE CHOOSE i \in WordsOf("time", {"ok", "bad"}) :
            \A k \in WordsOf("time", {"ok", "bad"}) : i <= k
FirstFps ==
    IF WordsOf("fps", {"ok", "bad"}) = {} THEN 0
    ELSE CHOOSE i \in WordsOf("fps", {"ok", "bad"}) :
            \A k \in WordsOf("fps", {"ok", "bad"}) : i <= k
\* The elapsed time of a sample, visible in its progress when the total
\* duration is positive and greater than it
ElapsedIs(t) ==
    args.total_duration > t => result.progress = [num |-> t, den |-> args.total_duration]

\* C18 as stated: parse_progress returns None exactly when no word of the line
\* is a frame= followed by a parseable unsigned integer, and otherwise a sample;
\* a sample of a line without a well-formed fps= has fps 30, and a sample of a
\* line without a well-formed time= has elapsed time 0.
C18_NoneIffNoParseableFrame ==
    Returned("parse_progress") =>
        /\ result.status \in {"None", "Some"}
        /\ result.status = "None" <=> WordsOf("frame", {"ok"}) = {}
        /\ result.status = "Some" =>
            /\ WordsOf("fps", {"ok"}) = {} => result.fps = 30
            /\ WordsOf("time", {"ok"}) = {} => ElapsedIs(0)

\* C18, amended: parse_progress always returns, None exactly when the line has
\* no frame= followed by digits or the digits of the first such word do not
\* parse as u64, and otherwise a sample with that word's number; the sample has
\* fps 30 when there is no fps= followed by a number or the first such does not
\* parse; it has elapsed time 0 when no word has the form time=H:M:S, and when
\* the seconds of the first such word do not parse they count as 0 while its
\* hours and minutes still count.
C18_NoneIffFirstFrameUnparseable ==
    Returned("parse_progress") =>
        /\ result.status \in {"None", "Some"}
        /\ result.status = "None" <=> (FirstFrame = 0 \/ args.line[FirstFrame].form = "bad")
        /\ result.status = "Some" =>
            /\ result.current_frame = args.line[FirstFrame].n
            /\ (FirstFps = 0 \/ args.line[FirstFps].form = "bad") => result.fps = 30
            /\ (FirstFps # 0 /\ args.line[FirstFps].form = "ok")
                => result.fps = args.line[FirstFps].n
            /\ FirstTime = 0 => ElapsedIs(0)
            /\ (FirstTime # 0 /\ args.line[FirstTime].form = "bad")
                => ElapsedIs(args.line[FirstTime].h * 3600 + args.line[FirstTime].m * 60)

\* A frame counter next to fps= and time= words that do not match gave a sample
\* with the defaults
C18_Witness ==
    /\ Returned("parse_progress")
    /\ args.total_duration = 100
    /\ args.line = <<Word("frame", "ok", 0, 0, 100), Word("fps", "nomatch", 0, 0, 0),
                     Word("time", "nomatch", 0, 0, 0)>>
    /\ result.status = "Some" /\ result.fps = 30 /\ result.current_frame = 100
    /\ result.progress = [num |-> 0, den |-> 100]

\* ------------------------------------------------------------------ C19
\* The lines of the output section of the error message: its text cut at each
\* line feed
RECURSIVE CutAtLineFeeds(_)
CutAtLineFeeds(text) ==
    LET feeds == {i \in 1..Len(text) : text[i] = "\n"} IN
    IF feeds = {} THEN <<text>>
    ELSE LET k == CHOOSE i \in feeds : \A f \in feeds : i <= f IN
         <<SubSeq(text, 1, k - 1)>> \o CutAtLineFeeds(SubSeq(text, k + 1, Len(text)))
QuotedLines == CutAtLineFeeds(result.recent[2])
\* The last min(TailLines, n) of the n lines that were read, in the order read
LastRead ==
    LET n == Len(args.stderr) IN
    SubSeq(args.stderr, IF n > TailLines THEN n - TailLines + 1 ELSE 1, n)
RunFailed == Returned("run_export") /\ args.exit_code # 0

\* C19 as stated: the message of a failed run quotes exactly the last
\* min(10, n) of the n lines read, as they were read and in that order; with
\* no line read it is the generic message without an output section.
C19_LastLinesVerbatim ==
    RunFailed =>
        /\ result.status = "Err"
        /\ args.stderr = <<>> <=> result.recent = None
        /\ args.stderr # <<>> => QuotedLines = LastRead

\* C19, amended: the message of a failed run quotes exactly the last
\* min(10, n) of the n lines read, in the order read, each without the
\* carriage return it ends with if it ends with one; with no line read it is
\* the generic message without an output section.
C19_LastLinesWithoutLineEnd ==
    RunFailed =>
        /\ result.status = "Err"
        /\ args.stderr = <<>> <=> result.recent = None
        /\ args.stderr # <<>> =>
            QuotedLines = [i \in 1..Len(LastRead) |-> StripLineEnd(LastRead[i])]

\* Eleven lines were read, the first differs from the others, and the message
\* quotes the ten after it
C19_Witness ==
    /\ RunFailed
    /\ Len(args.stderr) = TailLines + 1
    /\ args.stderr[1] = <<"b", "\r">>
    /\ \A i \in 2..Len(args.stderr) : args.stderr[i] = <<"a">>
    /\ QuotedLines = [i \in 1..TailLines |-> <<"a">>]

\* ------------------------------------------------------------------ C20
\* The encoders that run in software
SoftwareEncoders == {"libx264", "libx265", "libvpx-vp9"}
\* The encoder the argument list names after -c:v
SelectedEncoder ==
    result.argv[(CHOOSE i \in 1..Len(result.argv) : result.argv[i] = "-c:v") + 1]

\* C20: for all settings and platforms the argument list has -preset medium
\* exactly when the encoder after -c:v is a software encoder, also when
\* hardware_acceleration is on and the codec is HEVC or VP9 or the platform has
\* no hardware H264 encoder; it has no preset only with a hardware encoder.
C20_PresetIffSoftwareEncoder ==
    Returned("build_export_command") =>
        /\ SelectedEncoder \in SoftwareEncoders
            => \E i \in 1..(Len(result.argv) - 1) :
                    result.argv[i] = "-preset" /\ result.argv[i + 1] = "medium"
        /\ SelectedEncoder \notin SoftwareEncoders => Occurrences("-preset") = 0

\* ------------------------------------------------------------------ C21
\* The argument list passes arg followed by value
Passes(arg, value) ==
    \E i \in 1..(Len(result.argv) - 1) : result.argv[i] = arg /\ result.argv[i + 1] = value

\* C21: for all settings and platforms the argument list has exactly one of
\* -crf and -b:v; it has -crf with the CRF value of the quality (18, 23, 28 for
\* High, Medium, Low) whenever the encoder after -c:v is a software encoder, the
\* software encoder taken for hardware H264 on a platform without a hardware
\* encoder included, and -b:v 5M only when that encoder is a hardware encoder.
C21_RateControlFollowsEncoder ==
    Returned("build_export_command") =>
        /\ Occurrences("-crf") + Occurrences("-b:v") = 1
        /\ SelectedEncoder \in SoftwareEncoders
            => Passes("-crf", CASE args.settings.quality = "High" -> "18"
                                [] args.settings.quality = "Medium" -> "23"
                                [] args.settings.quality = "Low" -> "28")
        /\ Passes("-b:v", "5M") => SelectedEncoder \notin SoftwareEncoders

\* ------------------------------------------------------------------ C22
\* The main tracks of the call, and those of them with the most clips
MainTracks == {i \in 1..Len(args.tracks) : args.tracks[i].track_type = "Main"}
FullestMainTracks ==
    {i \in MainTracks :
        \A k \in MainTracks : Len(args.tracks[k].clips) <= Len(args.tracks[i].clips)}
FirstOf(indices) == CHOOSE i \in indices : \A k \in indices : i <= k
LastOf(indices) == CHOOSE i \in indices : \A k \in indices : k <= i
\* concat.txt holds the header and the segments of the clips of track i, sorted
WrittenFrom(i) ==
    result.file = File(AppendClips(<<Line("ffconcat version 1.0", <<>>, 0)>>,
                                   SortByStartTime(args.tracks[i].clips),
                                   args.media_library).content)

\* C22 as stated: generate_concat_file looks at main tracks only; with none it
\* fails with the no-main-track error and writes nothing; with several, the
\* manifest is that of the FIRST, in track order, of the main tracks with the
\* most clips.
C22_FirstFullestMainTrack ==
    Returned("generate_concat_file") =>
        /\ MainTracks = {} => result.status = "NoMainTrack" /\ result.file = NoFile
        /\ MainTracks # {} => result.status # "NoMainTrack"
        /\ (MainTracks # {} /\ result.status = "Ok")
            => WrittenFrom(FirstOf(FullestMainTracks))

\* C22 amended: as above, but the manifest is that of the LAST, in track
\* order, of the main tracks with the most clips (max_by_key keeps the last of
\* equal maxima).
C22_LastFullestMainTrack ==
    Returned("generate_concat_file") =>
        /\ MainTracks = {} => result.status = "NoMainTrack" /\ result.file = NoFile
        /\ MainTracks # {} => result.status # "NoMainTrack"
        /\ (MainTracks # {} /\ result.status = "Ok")
            => WrittenFrom(LastOf(FullestMainTracks))

\* An overlay track with two clips, then two main tracks with one clip each,
\* naming different media: the manifest is that of the second main track
C22_Witness ==
    /\ Returned("generate_concat_file")
    /\ args.tracks = <<Track("Overlay", <<OneClip, OtherClip>>),
                       Track("Main", <<OneClip>>), Track("Main", <<OtherClip>>)>>
    /\ result.status = "Ok"
    /\ WrittenFrom(3)
    /\ ~WrittenFrom(2)
    /\ ~WrittenFrom(1)

\* ------------------------------------------------------------------ C23
\* C23: calculate_timeline_duration returns a number that is not negative for
\* every track list, those whose clips have out_point < in_point included (a
\* lone clip start = 0, in = 5, out = 2 for one).
C23_DurationNotNegative ==
    Returned("calculate_timeline_duration") => result.value >= 0

\* ------------------------------------------------------------------ C24
\* The invariant of a timeline clip
ClipValid(clip) == clip.in_point < clip.out_point /\ clip.start_time >= 0
AllClipsValid == \A i \in 1..Len(StoredClips) : ClipValid(StoredClips[i])

\* A step in which add_clip_to_timeline returns: either Ok with a valid clip
\* made of its arguments, now the last of the stored clips, or an error with
\* the project as it was. An add with in_point >= out_point or start_time < 0
\* can therefore only return an error and store nothing.
AddStoresValidOrNothing ==
    ret'.op = "add_clip_to_timeline" =>
        IF ret'.res = "Ok"
        THEN /\ ret'.clip # None
             /\ ClipValid(ret'.clip[2])
             /\ StoredClips' = Append(StoredClips, ret'.clip[2])
        ELSE project' = project

\* The update printed that it updated the field
PrintedUpdated(field) ==
    \E k \in 1..Len(ret'.printed) : ret'.printed[k] = <<field, "Updated">>

\* A step in which update_timeline_clip returns Ok: the other clips are as
\* before; of the clip it names, a field it did not report as updated (absent
\* from the request, or rejected) is as before, and a field it updated passed
\* its test: start_time against zero, in_point against the out_point before the
\* call, out_point against the in_point just decided. Any other return leaves
\* the project as it was.
UpdateAppliesValidOnly ==
    ret'.op = "update_timeline_clip" =>
        IF ret'.res # "Ok" THEN project' = project
        ELSE /\ Len(StoredClips') = Len(StoredClips)
             /\ \A i \in 1..Len(StoredClips) :
                  LET old == StoredClips[i]
                      new == StoredClips'[i]
                  IN IF old.id # ret'.id THEN new = old
                     ELSE /\ ret'.clip = Some(new)
                          /\ new.id = old.id /\ new.media_clip_id = old.media_clip_id
                          /\ IF PrintedUpdated("start_time")
                             THEN new.start_time >= 0
                             ELSE new.start_time = old.start_time
                          /\ IF PrintedUpdated("in_point")
                             THEN new.in_point < old.out_point
                             ELSE new.in_point = old.in_point
                          /\ IF PrintedUpdated("out_point")
                             THEN new.out_point > new.in_point
                             ELSE new.out_point = old.out_point

\* C24: after any sequence of add_clip_to_timeline and update_timeline_clip
\* calls every clip of the project has in_point < out_point and start_time >= 0;
\* an add that breaks either condition is rejected and stores nothing; an update
\* applies each of start_time, in_point, out_point, in that order and against
\* the clip's values at that moment, only if the clip stays valid, and leaves a
\* rejected field as it was.
C24_StoredClipsStayValid ==
    /\ []AllClipsValid
    /\ [][AddStoresValidOrNothing /\ UpdateAppliesValidOnly]_vars

\* An update has just returned a stored clip after rejecting the in_point it
\* was given and updating the out_point, and the clip is valid
C24_Witness ==
    /\ Len(StoredClips) = MaxAdds
    /\ ret.op = "update_timeline_clip"
    /\ ret.res = "Ok"
    /\ ret.printed = <<<<"in_point", "Rejected">>, <<"out_point", "Updated">>>>
    /\ \E i \in 1..Len(StoredClips) :
        /\ ret.clip = Some(StoredClips[i])
        /\ StoredClips[i].in_point = 0 /\ StoredClips[i].out_point = 1
        /\ ClipValid(StoredClips[i])

\* ------------------------------------------------------------------ C25
\* C25: for each job, once export_complete (export_error) has been published
\* the registry already holds the terminal status: whoever receives the event
\* and then reads the registry does not find the job Preparing or Rendering.
C25_TerminalStatusBeforeEvent ==
    \A j \in DOMAIN jobs :
        (Count(j, "export_complete") > 0 \/ Count(j, "export_error") > 0)
            => StatusOf(j) \notin {"Preparing", "Rendering"}

\* ------------------------------------------------------------------ C26
\* C26: a cancel_export that runs after export_complete was published for a job
\* does not delete that job's output file: if the file exists before the call it
\* exists after it.
C26_CancelKeepsFinishedOutput ==
    [][\A j \in DOMAIN jobs :
        (/\ CancelStep
         /\ Count(j, "export_complete") > 0
         /\ OutputPathOf(j) \in files)
            => OutputPathOf(j) \in files']_vars

\* ------------------------------------------------------------------ C27
\* C27: after export_cancelled has been published for a job, no export_progress
\* event is published for that job, however cancel_export and the task's
\* line-reading loop interleave.
C27_NoProgressAfterCancelled ==
    \A j \in CallerIds : \A a, b \in 1..Len(events[j]) :
        (a < b /\ events[j][a].name = "export_cancelled")
            => events[j][b].name # "export_progress"

\* ------------------------------------------------------------------ C28
\* The events that end a job
TerminalEvents == {"export_complete", "export_error", "export_cancelled"}

\* C28: for each job id at most one of export_complete, export_error and
\* export_cancelled is ever published, once, however (repeated) cancel_export
\* calls and the task interleave.
C28_AtMostOneTerminalEvent ==
    \A j \in CallerIds :
        Cardinality({i \in 1..Len(events[j]) : events[j][i].name \in TerminalEvents}) <= 1

\* ------------------------------------------------------------------ C29
\* C29: an export_timeline that fails after it created its scratch directory
\* (no main track, media not found, manifest not written) has removed the
\* directory when it returns; in every state each scratch directory that
\* exists is that of a registered job whose task has not ended.
C29_ScratchDirsBelongToLiveJobs ==
    \A d \in tmpDirs : d \in DOMAIN jobs /\ task[d] # "done"

\* ------------------------------------------------------------------ C30
\* The statuses a job ends in
TerminalStatuses == {"Complete", "Failed", "Cancelled"}
\* The task of job j has ended and the job has a terminal status
Finished(j) == j \in DOMAIN jobs /\ task[j] = "done" /\ StatusOf(j) \in TerminalStatuses

\* C30: if the encoder eventually exits or cannot be spawned and the task is
\* scheduled fairly, every job export_timeline registered reaches a point from
\* which its task has ended and its status is Complete, Failed or Cancelled for
\* good: no job stays Preparing or Rendering, one cancelled while Preparing
\* included.
C30_EveryJobFinishes ==
    \A j \in JobIds : (j \in DOMAIN jobs) ~> [](Finished(j))

\* A job cancelled while Preparing whose encoder then could not be spawned: its
\* task has ended and its status is Failed
C30_Witness ==
    \E j \in DOMAIN jobs :
        /\ Finished(j)
        /\ proc[j] = "none"
        /\ Len(events[j]) = 2
        /\ events[j][1].name = "export_cancelled"
        /\ events[j][2].name = "export_error"
        /\ StatusOf(j) = "Failed"

====
